---- MODULE Spec2Model ----
(***************************************************************************)
(* Translation-change reconciliation engine of                             *)
(* scripts/translation-pr-checks: the parsers of localization_utils.py and *)
(* the change detector and locale coverage checks of                       *)
(* check_new_string_translations.py, for the catalog (.xcstrings), flat    *)
(* (.strings) and plural (.stringsdict) formats.                           *)
(*                                                                         *)
(* One behaviour is one check of one resource file: Init draws the base    *)
(* content, the current content, the required locales and the sibling      *)
(* locale files from bounded sets, and the action of the file's format     *)
(* runs the check function on them.                                        *)
(***************************************************************************)
EXTENDS Integers, Sequences, FiniteSets, TLC

VARIABLES
    fmt,              \* "xcstrings" | "strings" | "stringsdict"
    base_content,     \* content of the file at the base revision
    current_content,  \* content of the file in the working tree, or NoFile
    locale_files,     \* locale -> content of <locale>.lproj/<filename>, or NoFile
    required_locales, \* the platform's required locale set
    pc,               \* "start" | "done"
    raised,           \* "none", or the function in which an exception escaped
    changed_keys,     \* the changed-key set the check computed
    issues,           \* the issue list the check returned
    output,           \* the lines main printed, once it has reported
    platform,         \* --platform of a run of main, "none" outside one
    changed_files,    \* the paths get_changed_files returned to main
    lproj_files,      \* <<parent dir, locale, filename>> -> content or NoFile
    base_files,       \* English file path -> content at the base revision
    tree,             \* the regular files below the working directory, as paths
    locations,        \* the set a locator returned, once it has run
    head_files,       \* path -> what plutil makes of the content at HEAD
    working_files,    \* path -> what plutil makes of the working copy
    exit_code,        \* <<>>, or the value analyze_translation_changes returned
    environ,          \* os.environ.get('GITHUB_BASE_REF'): None or a string
    base_branch_cache, \* _base_branch_cache: None or the memoized base branch
    git_calls         \* the calls of the git utilities so far, with their base

vars == <<fmt, base_content, current_content, locale_files, required_locales,
          pc, raised, changed_keys, issues, output, platform, changed_files,
          lproj_files, base_files, tree, locations, head_files, working_files,
          exit_code, environ, base_branch_cache, git_calls>>

(***************************************************************************)
(* Bounds of the model.                                                    *)
(***************************************************************************)
NumSourceValues == 2
MaxStatements == 2
MaxIssues == 3
MaxCalls == 3

(***************************************************************************)
(* Decoded JSON / plist values.  A value is a tagged record: a mapping     *)
(* (Python dict), a string, a boolean, or some other value that is not a   *)
(* mapping (a list).  NoneV is Python's None.                              *)
(***************************************************************************)
Str(s) == [t |-> "str", s |-> s]
Bool(b) == [t |-> "bool", b |-> b]
NonDict == [t |-> "list"]
NoneV == [t |-> "none"]
Dict(f) == [t |-> "dict", d |-> f]
NoFields == [k \in {} |-> NonDict]
EmptyDict == Dict(NoFields)

\* isinstance(v, dict)
IsDict(v) == v.t = "dict"

\* d.get(k, default), for d a dict
Get(v, k, default) == IF k \in DOMAIN v.d THEN v.d[k] ELSE default

\* set(d.keys()), for d a dict
KeysOf(v) == DOMAIN v.d

(***************************************************************************)
(* Issues.  A TranslationIssue is the tuple                                *)
(* (file_path, key, locale set, issue type).                               *)
(***************************************************************************)
ISSUE_TYPE_MISSING == "missing"
ISSUE_TYPE_NEEDS_REVIEW == "needs_review"

IssueFile(i) == i[1]
IssueKey(i) == i[2]
IssueLocales(i) == i[3]
IssueType(i) == i[4]

\* The orders in which "for key in <set>" can visit the keys of a set.
IterationOrders(S) ==
    {o \in [1..Cardinality(S) -> S] : \A k \in S : \E i \in DOMAIN o : o[i] = k}

(***************************************************************************)
(* Catalog format: parse_xcstrings.  A content is "" (empty), text that is *)
(* not JSON, or a JSON text, kept as the value json.loads decodes it to.   *)
(***************************************************************************)
EmptyContent == [c |-> "empty"]
InvalidContent == [c |-> "invalid"]
JsonContent(v) == [c |-> "json", v |-> v]
NoFile == [c |-> "nofile"]

parse_xcstrings(content) ==
    IF content.c = "empty" THEN Dict("strings" :> EmptyDict)
    ELSE IF content.c = "json" THEN content.v
    ELSE Dict("strings" :> EmptyDict)

(***************************************************************************)
(* Catalog format: the change detector.                                    *)
(***************************************************************************)
\* A source value that is None where an entry has no English string unit.
get_string_unit_value_none_if_absent(string_entry) ==
    IF /\ IsDict(string_entry)
       /\ IsDict(Get(string_entry, "localizations", EmptyDict))
       /\ IsDict(Get(Get(string_entry, "localizations", EmptyDict), "en", NonDict))
    THEN Get(Get(Get(Get(string_entry, "localizations", EmptyDict), "en", EmptyDict),
                 "stringUnit", EmptyDict), "value", Str(""))
    ELSE NoneV

get_string_unit_value(string_entry) ==
    IF ~IsDict(string_entry) THEN Str("")
    ELSE LET localizations == Get(string_entry, "localizations", EmptyDict) IN
         IF ~IsDict(localizations) THEN Str("")
         ELSE LET en_localization == Get(localizations, "en", EmptyDict) IN
              IF ~IsDict(en_localization) THEN Str("")
              ELSE LET string_unit == Get(en_localization, "stringUnit", EmptyDict) IN
                   IF ~IsDict(string_unit) THEN Str("")
                   ELSE Get(string_unit, "value", Str(""))

get_string_unit_state(localization_entry) ==
    IF ~IsDict(localization_entry) THEN NoneV
    ELSE LET string_unit == Get(localization_entry, "stringUnit", EmptyDict) IN
         IF ~IsDict(string_unit) THEN NoneV
         ELSE Get(string_unit, "state", NoneV)

\* get_changed_string_keys raises AttributeError when old_data, new_data or
\* either "strings" value has no .get / .keys (is not a dict).
get_changed_string_keys_raises(old_data, new_data) ==
    \/ ~IsDict(old_data)
    \/ ~IsDict(new_data)
    \/ ~IsDict(Get(old_data, "strings", EmptyDict))
    \/ ~IsDict(Get(new_data, "strings", EmptyDict))

\* A detector that compares the whole entries instead of the English value.
source_value_changed_whole_entry(old_value, new_value) ==
    /\ IsDict(old_value)
    /\ IsDict(new_value)
    /\ old_value # new_value

\* The loop condition of lines 133-140: both entries are dicts and the
\* English source values differ.
source_value_changed(old_value, new_value) ==
    /\ IsDict(old_value)
    /\ IsDict(new_value)
    /\ get_string_unit_value(old_value) # get_string_unit_value(new_value)

\* A detector that compares the source values of any two entries.
get_changed_string_keys_any_entries(old_data, new_data) ==
    LET old_strings == Get(old_data, "strings", EmptyDict)
        new_strings == Get(new_data, "strings", EmptyDict)
        old_keys == KeysOf(old_strings)
        new_keys == KeysOf(new_strings)
    IN  (new_keys \ old_keys) \cup
        {key \in old_keys \cap new_keys :
            get_string_unit_value(Get(old_strings, key, EmptyDict))
                # get_string_unit_value(Get(new_strings, key, EmptyDict))}

get_changed_string_keys(old_data, new_data) ==
    LET old_strings == Get(old_data, "strings", EmptyDict)
        new_strings == Get(new_data, "strings", EmptyDict)
        old_keys == KeysOf(old_strings)
        new_keys == KeysOf(new_strings)
    IN  (new_keys \ old_keys) \cup
        {key \in old_keys \cap new_keys :
            source_value_changed(Get(old_strings, key, EmptyDict),
                                 Get(new_strings, key, EmptyDict))}

(***************************************************************************)
(* Catalog format: the missing check.  key_order is the order in which the *)
(* loop "for key in changed_keys" visits the set.                          *)
(***************************************************************************)
\* A skip test that does not look at shouldTranslate.
entry_skipped_malformed_only(value) == ~IsDict(value)

\* Line 172: the key is skipped.
entry_skipped(value) ==
    \/ ~IsDict(value)
    \/ Get(value, "shouldTranslate", NoneV) = Bool(FALSE)

\* A missing check that takes only needs_review for a valid state.
missing_locales_of_translated_uncovered(value, locales) ==
    LET localizations == Get(value, "localizations", EmptyDict) IN
    {locale \in locales :
        LET loc_data == Get(localizations, locale, EmptyDict) IN
        \/ ~IsDict(loc_data)
        \/ get_string_unit_state(loc_data) # Str("needs_review")}

\* Lines 179-189, for a value that is not skipped and whose localizations
\* is a dict.
missing_locales_of(value, locales) ==
    LET localizations == Get(value, "localizations", EmptyDict) IN
    {locale \in locales :
        LET loc_data == Get(localizations, locale, EmptyDict) IN
        \/ ~IsDict(loc_data)
        \/ /\ get_string_unit_state(loc_data) # Str("translated")
           /\ get_string_unit_state(loc_data) # Str("needs_review")}

\* localizations.get(locale, {}) raises AttributeError at line 180 (and at
\* line 237) when localizations is not a dict and some locale is required.
localizations_get_raises(value, locales) ==
    /\ ~entry_skipped(value)
    /\ locales # {}
    /\ ~IsDict(Get(value, "localizations", EmptyDict))

check_missing_raises(current_data, locales, keys) ==
    LET strings == Get(current_data, "strings", EmptyDict) IN
    \E key \in keys : localizations_get_raises(Get(strings, key, EmptyDict), locales)

\* A missing check that reports an entry that is not a dict for every locale.
missing_issue_of_malformed_reported(file_path, strings, locales, key) ==
    LET value == Get(strings, key, EmptyDict) IN
    IF ~IsDict(value)
    THEN IF locales = {} THEN <<>>
         ELSE << <<file_path, key, locales, ISSUE_TYPE_MISSING>> >>
    ELSE IF entry_skipped(value) THEN <<>>
    ELSE IF missing_locales_of(value, locales) = {} THEN <<>>
    ELSE << <<file_path, key, missing_locales_of(value, locales), ISSUE_TYPE_MISSING>> >>

missing_issue_of(file_path, strings, locales, key) ==
    LET value == Get(strings, key, EmptyDict) IN
    IF entry_skipped(value) THEN <<>>
    ELSE IF missing_locales_of(value, locales) = {} THEN <<>>
    ELSE << <<file_path, key, missing_locales_of(value, locales), ISSUE_TYPE_MISSING>> >>

\* A missing pass that also looks at fr, required or not.
check_xcstrings_strings_missing_translations_with_fr(file_path, current_data, locales, keys, key_order) ==
    LET strings == Get(current_data, "strings", EmptyDict)
        extra == IF \E key \in keys :
                       localizations_get_raises(Get(strings, key, EmptyDict), {"fr"})
                 THEN {} ELSE {"fr"}
        upto[i \in 0..Len(key_order)] ==
            IF i = 0 THEN <<>>
            ELSE upto[i - 1] \o missing_issue_of(file_path, strings, locales \cup extra,
                                                 key_order[i])
    IN  IF keys = {} THEN <<>> ELSE upto[Len(key_order)]

check_xcstrings_strings_missing_translations(file_path, current_data, locales, keys, key_order) ==
    LET strings == Get(current_data, "strings", EmptyDict)
        upto[i \in 0..Len(key_order)] ==
            IF i = 0 THEN <<>>
            ELSE upto[i - 1] \o missing_issue_of(file_path, strings, locales, key_order[i])
    IN  IF keys = {} THEN <<>> ELSE upto[Len(key_order)]

(***************************************************************************)
(* Catalog format: the needs-review check.                                 *)
(***************************************************************************)
\* A needs-review check that never looks at the base revision.
base_never_needs_review(base_strings, key, locale) == FALSE

\* Lines 243-249: the locale was already needs_review at the base revision.
base_already_needs_review(base_strings, key, locale) ==
    LET base_value == Get(base_strings, key, EmptyDict) IN
    /\ IsDict(base_value)
    /\ get_string_unit_state(
           Get(Get(base_value, "localizations", EmptyDict), locale, EmptyDict))
         = Str("needs_review")

\* A needs-review pass that takes every state but translated for stale.
needs_review_locales_of_not_translated(value, base_strings, locales, key) ==
    LET localizations == Get(value, "localizations", EmptyDict) IN
    {locale \in locales :
        LET loc_data == Get(localizations, locale, EmptyDict) IN
        /\ IsDict(loc_data)
        /\ get_string_unit_state(loc_data) # Str("translated")
        /\ ~base_already_needs_review(base_strings, key, locale)}

needs_review_locales_of(value, base_strings, locales, key) ==
    LET localizations == Get(value, "localizations", EmptyDict) IN
    {locale \in locales :
        LET loc_data == Get(localizations, locale, EmptyDict) IN
        /\ IsDict(loc_data)
        /\ get_string_unit_state(loc_data) = Str("needs_review")
        /\ ~base_already_needs_review(base_strings, key, locale)}

\* base_localizations.get(locale, {}) raises AttributeError at line 246 when
\* the base entry is a dict whose localizations is not one.
base_localizations_get_raises(value, base_strings, locales, key) ==
    LET localizations == Get(value, "localizations", EmptyDict)
        base_value == Get(base_strings, key, EmptyDict)
    IN  /\ ~entry_skipped(value)
        /\ IsDict(localizations)
        /\ IsDict(base_value)
        /\ ~IsDict(Get(base_value, "localizations", EmptyDict))
        /\ \E locale \in locales :
              /\ IsDict(Get(localizations, locale, EmptyDict))
              /\ get_string_unit_state(Get(localizations, locale, EmptyDict))
                    = Str("needs_review")

check_needs_review_raises(current_data, base_data, locales, keys) ==
    LET current_strings == Get(current_data, "strings", EmptyDict)
        base_strings == Get(base_data, "strings", EmptyDict)
    IN  \E key \in keys :
           \/ localizations_get_raises(Get(current_strings, key, EmptyDict), locales)
           \/ base_localizations_get_raises(Get(current_strings, key, EmptyDict),
                                            base_strings, locales, key)

needs_review_issue_of(file_path, current_strings, base_strings, locales, key) ==
    LET value == Get(current_strings, key, EmptyDict) IN
    IF entry_skipped(value) THEN <<>>
    ELSE IF needs_review_locales_of(value, base_strings, locales, key) = {} THEN <<>>
    ELSE << <<file_path, key, needs_review_locales_of(value, base_strings, locales, key),
              ISSUE_TYPE_NEEDS_REVIEW>> >>

\* A needs-review pass over every key of the current catalog that it can
\* read, changed or not.
check_xcstrings_needs_review_all_keys(file_path, current_data, base_data, locales, keys, key_order) ==
    LET current_strings == Get(current_data, "strings", EmptyDict)
        base_strings == Get(base_data, "strings", EmptyDict)
        readable == {key \in KeysOf(current_strings) :
                        /\ ~localizations_get_raises(Get(current_strings, key, EmptyDict),
                                                    locales)
                        /\ ~base_localizations_get_raises(
                               Get(current_strings, key, EmptyDict), base_strings,
                               locales, key)}
        all_keys == CHOOSE order \in IterationOrders(readable) : TRUE
        upto[i \in 0..Len(all_keys)] ==
            IF i = 0 THEN <<>>
            ELSE upto[i - 1] \o needs_review_issue_of(file_path, current_strings,
                                                      base_strings, locales, all_keys[i])
    IN  upto[Len(all_keys)]

check_xcstrings_needs_review(file_path, current_data, base_data, locales, keys, key_order) ==
    LET current_strings == Get(current_data, "strings", EmptyDict)
        base_strings == Get(base_data, "strings", EmptyDict)
        upto[i \in 0..Len(key_order)] ==
            IF i = 0 THEN <<>>
            ELSE upto[i - 1] \o needs_review_issue_of(file_path, current_strings,
                                                      base_strings, locales, key_order[i])
    IN  IF keys = {} THEN <<>> ELSE upto[Len(key_order)]

(***************************************************************************)
(* Flat format: parse_strings_file.  A content is a sequence of pieces of  *)
(* text: a piece the pattern "key" = "value"; matches, or other text       *)
(* (a comment, a broken line).  The empty content is the empty sequence.   *)
(***************************************************************************)
TextContent(pieces) == [c |-> "text", pieces |-> pieces]
Pair(key, value) == [m |-> "pair", k |-> key, v |-> value]
OtherText == [m |-> "other"]

\* result[key] = value for each match in turn: the last match of a key wins.
parse_strings_file(content) ==
    LET pieces == content.pieces
        matches == {i \in DOMAIN pieces : pieces[i].m = "pair"}
        last(key) == CHOOSE i \in matches :
                        /\ pieces[i].k = key
                        /\ \A j \in matches : pieces[j].k = key => j <= i
    IN  [key \in {pieces[i].k : i \in matches} |-> pieces[last(key)].v]

(***************************************************************************)
(* Plural format: parse_stringsdict_file and parse_stringsdict_file_full.  *)
(* A content is "" (empty), text plistlib rejects with one of the caught   *)
(* exceptions (InvalidFileException, ValueError, TypeError), XML text on   *)
(* which plistlib.loads raises an exception the except clause does not     *)
(* name (xml.parsers.expat.ExpatError), or a property list, kept as the    *)
(* value plistlib.loads decodes it to.                                     *)
(***************************************************************************)
BrokenXmlContent == [c |-> "broken_xml"]
PlistContent(v) == [c |-> "plist", v |-> v]

plistlib_loads_raises_uncaught(content) == content.c = "broken_xml"

parse_stringsdict_file_full(content) ==
    IF content.c = "empty" THEN EmptyDict
    ELSE IF content.c = "plist" /\ IsDict(content.v) THEN content.v
    ELSE EmptyDict

parse_stringsdict_file(content) ==
    IF content.c = "empty" THEN {}
    ELSE IF content.c = "plist" /\ IsDict(content.v) THEN KeysOf(content.v)
    ELSE {}

(***************************************************************************)
(* Flat and plural formats: the changed keys and the sibling-file lookup.  *)
(***************************************************************************)
\* A detector that finds the new keys only.
strings_changed_keys_new_only(current_strings, base_strings) ==
    DOMAIN current_strings \ DOMAIN base_strings

\* Lines 314-323: the changed keys of two parsed .strings tables.
strings_changed_keys(current_strings, base_strings) ==
    LET current_keys == DOMAIN current_strings
        base_keys == DOMAIN base_strings
    IN  (current_keys \ base_keys) \cup
        {key \in current_keys \cap base_keys : current_strings[key] # base_strings[key]}

\* A detector that takes every key of the current dictionary for changed.
stringsdict_changed_keys_all_current(current_data, base_data) == KeysOf(current_data)

\* Lines 410-416: the changed keys of two parsed .stringsdict dictionaries.
stringsdict_changed_keys(current_data, base_data) ==
    LET current_keys == KeysOf(current_data)
        base_keys == KeysOf(base_data)
    IN  (current_keys \ base_keys) \cup
        {key \in current_keys \cap base_keys :
            Get(current_data, key, NoneV) # Get(base_data, key, NoneV)}

\* Lines 333-339: the keys of a required locale's sibling .strings file.
strings_locale_keys(files, locale) ==
    IF files[locale].c = "nofile" THEN {} ELSE DOMAIN parse_strings_file(files[locale])

\* Lines 425-431: the keys of a required locale's sibling .stringsdict file.
stringsdict_locale_keys(files, locale) ==
    IF files[locale].c = "nofile" THEN {} ELSE parse_stringsdict_file(files[locale])

\* A loop body that appends an issue for every changed key.
locale_missing_issue_of_unconditional(en_file_path, locale_keys, locales, key) ==
    << <<en_file_path, key, {locale \in locales : key \notin locale_keys[locale]},
         ISSUE_TYPE_MISSING>> >>

\* Lines 342-351 and 433-442: one issue per changed key that some required
\* locale's sibling file lacks.
locale_missing_issue_of(en_file_path, locale_keys, locales, key) ==
    LET missing_locales == {locale \in locales : key \notin locale_keys[locale]} IN
    IF missing_locales = {} THEN <<>>
    ELSE << <<en_file_path, key, missing_locales, ISSUE_TYPE_MISSING>> >>

\* A loop that appends one issue for each locale that lacks the key.
locale_missing_issues_per_locale(en_file_path, locale_keys, locales, key_order) ==
    LET locale_order == CHOOSE order \in IterationOrders(locales) : TRUE
        of_key(key) ==
            LET upto[j \in 0..Len(locale_order)] ==
                    IF j = 0 THEN <<>>
                    ELSE upto[j - 1] \o locale_missing_issue_of(
                             en_file_path, locale_keys, {locale_order[j]}, key)
            IN  upto[Len(locale_order)]
        upto[i \in 0..Len(key_order)] ==
            IF i = 0 THEN <<>> ELSE upto[i - 1] \o of_key(key_order[i])
    IN  upto[Len(key_order)]

locale_missing_issues(en_file_path, locale_keys, locales, key_order) ==
    LET upto[i \in 0..Len(key_order)] ==
            IF i = 0 THEN <<>>
            ELSE upto[i - 1] \o locale_missing_issue_of(en_file_path, locale_keys,
                                                        locales, key_order[i])
    IN  upto[Len(key_order)]

(***************************************************************************)
(* Text.  The characters, as Unicode code points, of the strings whose     *)
(* text the program inspects: file paths, keys and locale codes.           *)
(***************************************************************************)
CodePoints ==
    ("iOS/Localizable.xcstrings" :> <<105, 79, 83, 47, 76, 111, 99, 97, 108,
          105, 122, 97, 98, 108, 101, 46, 120, 99, 115, 116, 114, 105, 110,
          103, 115>>)
    @@ ("iOS/en.lproj/Localizable.strings" :> <<105, 79, 83, 47, 101, 110, 46,
          108, 112, 114, 111, 106, 47, 76, 111, 99, 97, 108, 105, 122, 97, 98,
          108, 101, 46, 115, 116, 114, 105, 110, 103, 115>>)
    @@ ("iOS/en.lproj/Localizable.stringsdict" :> <<105, 79, 83, 47, 101, 110,
          46, 108, 112, 114, 111, 106, 47, 76, 111, 99, 97, 108, 105, 122, 97,
          98, 108, 101, 46, 115, 116, 114, 105, 110, 103, 115, 100, 105, 99,
          116>>)
    @@ ("welcome" :> <<119, 101, 108, 99, 111, 109, 101>>)
    @@ ("save" :> <<115, 97, 118, 101>>)
    @@ ("cancel" :> <<99, 97, 110, 99, 101, 108>>)
    @@ ("items" :> <<105, 116, 101, 109, 115>>)
    @@ ("tabs" :> <<116, 97, 98, 115>>)
    @@ ("settings.privacy.tracker.protection.description.on" :> <<115, 101,
          116, 116, 105, 110, 103, 115, 46, 112, 114, 105, 118, 97, 99, 121,
          46, 116, 114, 97, 99, 107, 101, 114, 46, 112, 114, 111, 116, 101,
          99, 116, 105, 111, 110, 46, 100, 101, 115, 99, 114, 105, 112, 116,
          105, 111, 110, 46, 111, 110>>)
    @@ ("settings.privacy.tracker.protection.description.off" :> <<115, 101,
          116, 116, 105, 110, 103, 115, 46, 112, 114, 105, 118, 97, 99, 121,
          46, 116, 114, 97, 99, 107, 101, 114, 46, 112, 114, 111, 116, 101,
          99, 116, 105, 111, 110, 46, 100, 101, 115, 99, 114, 105, 112, 116,
          105, 111, 110, 46, 111, 102, 102>>)
    @@ ("settings.privacy.tracker.protection.description.one" :> <<115, 101,
          116, 116, 105, 110, 103, 115, 46, 112, 114, 105, 118, 97, 99, 121,
          46, 116, 114, 97, 99, 107, 101, 114, 46, 112, 114, 111, 116, 101,
          99, 116, 105, 111, 110, 46, 100, 101, 115, 99, 114, 105, 112, 116,
          105, 111, 110, 46, 111, 110, 101>>)
    @@ ("bg" :> <<98, 103>>)
    @@ ("cs" :> <<99, 115>>)
    @@ ("da" :> <<100, 97>>)
    @@ ("de" :> <<100, 101>>)
    @@ ("el" :> <<101, 108>>)
    @@ ("es" :> <<101, 115>>)
    @@ ("et" :> <<101, 116>>)
    @@ ("fi" :> <<102, 105>>)
    @@ ("fr" :> <<102, 114>>)
    @@ ("hr" :> <<104, 114>>)
    @@ ("hu" :> <<104, 117>>)
    @@ ("it" :> <<105, 116>>)
    @@ ("lt" :> <<108, 116>>)
    @@ ("lv" :> <<108, 118>>)
    @@ ("nb" :> <<110, 98>>)
    @@ ("nl" :> <<110, 108>>)
    @@ ("pl" :> <<112, 108>>)
    @@ ("pt" :> <<112, 116>>)
    @@ ("ro" :> <<114, 111>>)
    @@ ("ru" :> <<114, 117>>)
    @@ ("sk" :> <<115, 107>>)
    @@ ("sl" :> <<115, 108>>)
    @@ ("sv" :> <<115, 118>>)
    @@ ("tr" :> <<116, 114>>)
    @@ ("iOS" :> <<105, 79, 83>>)
    @@ ("macOS" :> <<109, 97, 99, 79, 83>>)
    @@ ("SharedPackages" :> <<83, 104, 97, 114, 101, 100, 80, 97, 99, 107, 97,
          103, 101, 115>>)
    @@ ("iOS/Core" :> <<105, 79, 83, 47, 67, 111, 114, 101>>)
    @@ ("SharedPackages/UI" :> <<83, 104, 97, 114, 101, 100, 80, 97, 99, 107,
          97, 103, 101, 115, 47, 85, 73>>)
    @@ ("en.lproj" :> <<101, 110, 46, 108, 112, 114, 111, 106>>)
    @@ ("Localizable.strings" :> <<76, 111, 99, 97, 108, 105, 122, 97, 98,
          108, 101, 46, 115, 116, 114, 105, 110, 103, 115>>)
    @@ ("Localizable.stringsdict" :> <<76, 111, 99, 97, 108, 105, 122, 97, 98,
          108, 101, 46, 115, 116, 114, 105, 110, 103, 115, 100, 105, 99,
          116>>)
    @@ (".strings" :> <<46, 115, 116, 114, 105, 110, 103, 115>>)
    @@ (".stringsdict" :> <<46, 115, 116, 114, 105, 110, 103, 115, 100, 105,
          99, 116>>)
    @@ (".xcstrings" :> <<46, 120, 99, 115, 116, 114, 105, 110, 103, 115>>)
    @@ ("iOS/Core/en.lproj/Localizable.strings" :> <<105, 79, 83, 47, 67, 111,
          114, 101, 47, 101, 110, 46, 108, 112, 114, 111, 106, 47, 76, 111,
          99, 97, 108, 105, 122, 97, 98, 108, 101, 46, 115, 116, 114, 105,
          110, 103, 115>>)
    @@ ("iOS/Core/en.lproj/Localizable.stringsdict" :> <<105, 79, 83, 47, 67,
          111, 114, 101, 47, 101, 110, 46, 108, 112, 114, 111, 106, 47, 76,
          111, 99, 97, 108, 105, 122, 97, 98, 108, 101, 46, 115, 116, 114,
          105, 110, 103, 115, 100, 105, 99, 116>>)
    @@ ("SharedPackages/UI/en.lproj/Localizable.strings" :> <<83, 104, 97,
          114, 101, 100, 80, 97, 99, 107, 97, 103, 101, 115, 47, 85, 73, 47,
          101, 110, 46, 108, 112, 114, 111, 106, 47, 76, 111, 99, 97, 108,
          105, 122, 97, 98, 108, 101, 46, 115, 116, 114, 105, 110, 103, 115>>)
    @@ ("SharedPackages/UI/en.lproj/Localizable.stringsdict" :> <<83, 104, 97,
          114, 101, 100, 80, 97, 99, 107, 97, 103, 101, 115, 47, 85, 73, 47,
          101, 110, 46, 108, 112, 114, 111, 106, 47, 76, 111, 99, 97, 108,
          105, 122, 97, 98, 108, 101, 46, 115, 116, 114, 105, 110, 103, 115,
          100, 105, 99, 116>>)
    @@ ("iOS/Core/de.lproj/Localizable.strings" :> <<105, 79, 83, 47, 67, 111,
          114, 101, 47, 100, 101, 46, 108, 112, 114, 111, 106, 47, 76, 111,
          99, 97, 108, 105, 122, 97, 98, 108, 101, 46, 115, 116, 114, 105,
          110, 103, 115>>)
    @@ ("iOS/Core/de.lproj/Localizable.stringsdict" :> <<105, 79, 83, 47, 67,
          111, 114, 101, 47, 100, 101, 46, 108, 112, 114, 111, 106, 47, 76,
          111, 99, 97, 108, 105, 122, 97, 98, 108, 101, 46, 115, 116, 114,
          105, 110, 103, 115, 100, 105, 99, 116>>)
    @@ ("Core" :> <<67, 111, 114, 101>>)
    @@ ("UI" :> <<85, 73>>)
    @@ ("Other" :> <<79, 116, 104, 101, 114>>)
    @@ ("Assets" :> <<65, 115, 115, 101, 116, 115>>)
    @@ ("de.lproj" :> <<100, 101, 46, 108, 112, 114, 111, 106>>)
    @@ ("lproj" :> <<108, 112, 114, 111, 106>>)
    @@ (".lproj" :> <<46, 108, 112, 114, 111, 106>>)
    @@ ("Info.plist" :> <<73, 110, 102, 111, 46, 112, 108, 105, 115, 116>>)
    @@ ("iOS/Info.plist" :> <<105, 79, 83, 47, 73, 110, 102, 111, 46, 112,
          108, 105, 115, 116>>)
    @@ ("Save" :> <<83, 97, 118, 101>>)
    @@ ("Sav " :> <<83, 97, 118, 32>>)
    @@ (" Save File " :> <<32, 83, 97, 118, 101, 32, 70, 105, 108, 101, 32>>)
    @@ ("Save File" :> <<83, 97, 118, 101, 32, 70, 105, 108, 101>>)
    @@ ("Cancel" :> <<67, 97, 110, 99, 101, 108>>)
    @@ (" " :> <<32>>)
    @@ ("NSStringLocalizedFormatKey" :> <<78, 83, 83, 116, 114, 105, 110, 103,
          76, 111, 99, 97, 108, 105, 122, 101, 100, 70, 111, 114, 109, 97,
          116, 75, 101, 121>>)
    @@ ("one" :> <<111, 110, 101>>)
    @@ ("other" :> <<111, 116, 104, 101, 114>>)
    @@ ("%#@items@" :> <<37, 35, 64, 105, 116, 101, 109, 115, 64>>)
    @@ ("%d item" :> <<37, 100, 32, 105, 116, 101, 109>>)
    @@ ("%d items" :> <<37, 100, 32, 105, 116, 101, 109, 115>>)
    @@ ("%d" :> <<37, 100>>)
    @@ ("origin/" :> <<111, 114, 105, 103, 105, 110, 47>>)
    @@ ("main" :> <<109, 97, 105, 110>>)
    @@ ("release" :> <<114, 101, 108, 101, 97, 115, 101>>)
    @@ ("origin/main" :> <<111, 114, 105, 103, 105, 110, 47, 109, 97, 105,
          110>>)
    @@ ("origin/release" :> <<111, 114, 105, 103, 105, 110, 47, 114, 101, 108,
          101, 97, 115, 101>>)
    @@ ("" :> <<>>)

\* a < b as Python compares two strings: code point by code point, a proper
\* prefix first.
LexLess(a, b) ==
    LET shorter == IF Len(a) < Len(b) THEN Len(a) ELSE Len(b)
        differing == {i \in 1..shorter : a[i] # b[i]}
    IN  IF differing = {} THEN Len(a) < Len(b)
        ELSE LET first == CHOOSE i \in differing : \A j \in differing : i <= j
             IN  a[first] < b[first]

StrLess(x, y) == LexLess(CodePoints[x], CodePoints[y])

\* sorted(S) for a set of strings.
SortedStrings(S) ==
    LET rank == [x \in S |-> Cardinality({y \in S : StrLess(y, x)}) + 1]
    IN  [r \in 1..Cardinality(S) |-> CHOOSE x \in S : rank[x] = r]

(***************************************************************************)
(* format_issues.  The text it returns is kept as its sequence of lines,   *)
(* a line as a record of the parts that were formatted into it; the empty  *)
(* string is the empty sequence.                                           *)
(***************************************************************************)
TitleLine == [line |-> "Untranslated strings found:"]
FileLine(file_path) == [line |-> "File:", file_path |-> file_path]
KeyLine(shown) == [line |-> "Key:", display_key |-> shown]
StatusLine(label, shown) ==
    [line |-> "status", status_label |-> label, locale_display |-> shown]

\* Lines 558-562: by_file[file_path], the issues of a file in input order.
by_file(issue_list, file_path) ==
    SelectSeq(issue_list, LAMBDA i : IssueFile(i) = file_path)

\* The files in the order their first issues come in the input.
files_in_input_order(issue_list) ==
    LET first(f) == CHOOSE i \in DOMAIN issue_list :
                        /\ IssueFile(issue_list[i]) = f
                        /\ \A j \in 1..(i - 1) : IssueFile(issue_list[j]) # f
        paths == {IssueFile(issue_list[i]) : i \in DOMAIN issue_list}
    IN  [r \in 1..Cardinality(paths) |->
            CHOOSE f \in paths :
                Cardinality({g \in paths : first(g) < first(f)}) + 1 = r]

\* Line 566: the file paths of sorted(by_file.items()).
sorted_files(issue_list) ==
    SortedStrings({IssueFile(issue_list[i]) : i \in DOMAIN issue_list})

\* The issues of a file left in input order.
file_issues_in_input_order(file_issues) == file_issues

\* Line 568: sorted(file_issues, key=lambda x: x[0]), a stable sort by key.
sorted_file_issues(file_issues) ==
    LET before(j, i) ==
            \/ StrLess(IssueKey(file_issues[j]), IssueKey(file_issues[i]))
            \/ IssueKey(file_issues[j]) = IssueKey(file_issues[i]) /\ j < i
        rank == [i \in DOMAIN file_issues |->
                    Cardinality({j \in DOMAIN file_issues : before(j, i)}) + 1]
    IN  [r \in 1..Len(file_issues) |->
            file_issues[CHOOSE i \in DOMAIN file_issues : rank[i] = r]]

\* A display key cut to its first 50 characters.
display_key_first_50(key) ==
    IF Len(CodePoints[key]) <= 50 THEN CodePoints[key]
    ELSE SubSeq(CodePoints[key], 1, 50)

\* Line 569: key if len(key) <= 50 else key[:47] + "..."
display_key(key) ==
    IF Len(CodePoints[key]) <= 50 THEN CodePoints[key]
    ELSE SubSeq(CodePoints[key], 1, 47) \o <<46, 46, 46>>

\* A locale display that takes the label when the two sets have the same size.
locale_display_by_count(locales, required) ==
    IF Cardinality(locales) = Cardinality(required)
    THEN [display |-> "All N languages", locale_count |-> Cardinality(required)]
    ELSE [display |-> "codes", locales_sorted |-> SortedStrings(locales)]

\* Lines 571-576.
locale_display(locales, required) ==
    IF locales = required
    THEN [display |-> "All N languages", locale_count |-> Cardinality(required)]
    ELSE [display |-> "codes", locales_sorted |-> SortedStrings(locales)]

\* Line 578.
status_label(issue_type) ==
    IF issue_type = ISSUE_TYPE_MISSING THEN "Missing translations" ELSE "Needs review"

\* Lines 580-581: the two lines of an issue.
issue_lines(issue, required) ==
    <<KeyLine(display_key(IssueKey(issue))),
      StatusLine(status_label(IssueType(issue)),
                 locale_display(IssueLocales(issue), required))>>

\* Lines 567-581: the lines of a file.
file_lines(file_path, file_issues, required) ==
    LET sorted == sorted_file_issues(file_issues)
        upto[i \in 0..Len(sorted)] ==
            IF i = 0 THEN <<FileLine(file_path)>>
            ELSE upto[i - 1] \o issue_lines(sorted[i], required)
    IN  upto[Len(sorted)]

format_issues(issue_list, required) ==
    LET paths == sorted_files(issue_list)
        upto[i \in 0..Len(paths)] ==
            IF i = 0 THEN <<TitleLine>>
            ELSE upto[i - 1] \o file_lines(paths[i], by_file(issue_list, paths[i]),
                                           required)
    IN  IF issue_list = <<>> THEN <<>> ELSE upto[Len(paths)]

(***************************************************************************)
(* Paths: os.path.join, os.path.dirname, os.path.basename, str.endswith,   *)
(* computed on the characters of the strings.                              *)
(***************************************************************************)
PathOf(text) == CHOOSE path \in DOMAIN CodePoints : CodePoints[path] = text

os_path_join(a, b, c) ==
    PathOf(CodePoints[a] \o <<47>> \o CodePoints[b] \o <<47>> \o CodePoints[c])

LastSlash(text) ==
    CHOOSE i \in DOMAIN text :
        text[i] = 47 /\ \A j \in (i + 1)..Len(text) : text[j] # 47

dirname(text) == SubSeq(text, 1, LastSlash(text) - 1)
basename(text) == SubSeq(text, LastSlash(text) + 1, Len(text))

endswith(string, suffix) ==
    LET text == CodePoints[string]
        tail == CodePoints[suffix]
    IN  /\ Len(tail) <= Len(text)
        /\ SubSeq(text, Len(text) - Len(tail) + 1, Len(text)) = tail

\* The directory is the search path or lies below it.
UnderSearchPath(path, search_path) ==
    LET text == CodePoints[path]
        root == CodePoints[search_path] \o <<47>>
    IN  \/ path = search_path
        \/ Len(root) <= Len(text) /\ SubSeq(text, 1, Len(root)) = root

(***************************************************************************)
(* The platform: its required locales and its search paths.                *)
(***************************************************************************)
MACOS_LOCALES == {"de", "es", "fr", "it", "nl", "pl", "pt", "ru"}

IOS_LOCALES ==
    {"bg", "cs", "da", "de", "el", "es", "et", "fi", "fr", "hr", "hu", "it",
     "lt", "lv", "nb", "nl", "pl", "pt", "ro", "ru", "sk", "sl", "sv", "tr"}

\* Required locales that keep the codes of macOS out of the set of iOS.
get_required_locales_disjoint(platform_name) ==
    IF platform_name = "iOS" THEN IOS_LOCALES \ MACOS_LOCALES
    ELSE IF platform_name = "macOS" THEN MACOS_LOCALES
    ELSE {}

get_required_locales(platform_name) ==
    IF platform_name = "iOS" THEN IOS_LOCALES
    ELSE IF platform_name = "macOS" THEN MACOS_LOCALES
    ELSE {}

get_search_paths(platform_name) ==
    IF platform_name = "iOS" THEN <<"iOS", "SharedPackages">>
    ELSE IF platform_name = "macOS" THEN <<"macOS", "SharedPackages">>
    ELSE <<platform_name>>

(***************************************************************************)
(* check_locale_based_files and the check functions as it calls them, on   *)
(* the files of the working tree.  A .strings or .stringsdict file is      *)
(* <parent dir>/<locale>.lproj/<filename>.                                 *)
(***************************************************************************)
\* The content open() reads, NoFile when it raises FileNotFoundError.
FileAt(parent_dir, locale, filename) == lproj_files[<<parent_dir, locale, filename>>]

\* Lines 328-329 and 421-422.
parent_dir_of(en_file_path) == PathOf(dirname(dirname(CodePoints[en_file_path])))
filename_of(en_file_path) == PathOf(basename(CodePoints[en_file_path]))

en_file(en_file_path) ==
    FileAt(parent_dir_of(en_file_path), "en", filename_of(en_file_path))

sibling_files(en_file_path, locales) ==
    [locale \in locales |->
        FileAt(parent_dir_of(en_file_path), locale, filename_of(en_file_path))]

\* find_strings_file_locations / find_stringsdict_file_locations: the
\* (grandparent, file) pairs of the files with the extension in .lproj
\* directories below the search paths.
find_locations_func(extension, paths) ==
    {<<t[1], t[3]>> :
        t \in {u \in DOMAIN lproj_files :
                  /\ lproj_files[u].c # "nofile"
                  /\ endswith(u[3], extension)
                  /\ \E i \in DOMAIN paths : UnderSearchPath(u[1], paths[i])}}

\* The changed keys check_strings_translations / check_stringsdict_translations
\* compute for an English file.
file_changed_keys(extension, en_file_path, base) ==
    LET current == en_file(en_file_path) IN
    IF current.c = "nofile" THEN {}
    ELSE IF extension = ".strings"
    THEN strings_changed_keys(parse_strings_file(current), parse_strings_file(base))
    ELSE stringsdict_changed_keys(parse_stringsdict_file_full(current),
                                  parse_stringsdict_file_full(base))

\* plistlib.loads raises an exception the parsers do not catch.
check_translations_func_raises(extension, en_file_path, base, locales) ==
    /\ extension = ".stringsdict"
    /\ en_file(en_file_path).c # "nofile"
    /\ \/ plistlib_loads_raises_uncaught(en_file(en_file_path))
       \/ plistlib_loads_raises_uncaught(base)
       \/ /\ file_changed_keys(extension, en_file_path, base) # {}
          /\ \E locale \in locales :
                plistlib_loads_raises_uncaught(sibling_files(en_file_path, locales)[locale])

\* check_strings_translations / check_stringsdict_translations.
check_translations_func(extension, en_file_path, base, locales, key_order) ==
    LET keys == file_changed_keys(extension, en_file_path, base)
        siblings == sibling_files(en_file_path, locales)
        locale_keys == [locale \in locales |->
                           IF extension = ".strings"
                           THEN strings_locale_keys(siblings, locale)
                           ELSE stringsdict_locale_keys(siblings, locale)]
    IN  IF keys = {} THEN <<>>
        ELSE locale_missing_issues(en_file_path, locale_keys, locales, key_order)

\* A selection that takes the English file of every location, changed or not.
en_files_to_check_all_locations(extension, location_order) ==
    LET en_paths == [i \in DOMAIN location_order |->
                        os_path_join(location_order[i][1], "en.lproj",
                                     location_order[i][2])]
    IN  SelectSeq(en_paths, LAMBDA path : en_file(path).c # "nofile")

\* Lines 473-486: the English files to check, in the order of the locations.
en_files_to_check(extension, location_order) ==
    LET changed == {f \in changed_files : endswith(f, extension)}
        en_paths == [i \in DOMAIN location_order |->
                        os_path_join(location_order[i][1], "en.lproj",
                                     location_order[i][2])]
    IN  SelectSeq(en_paths, LAMBDA path : path \in changed /\ en_file(path).c # "nofile")

check_locale_based_files_raises(extension, locales, location_order) ==
    LET to_check == en_files_to_check(extension, location_order) IN
    \E i \in DOMAIN to_check :
        check_translations_func_raises(extension, to_check[i], base_files[to_check[i]],
                                       locales)

\* Lines 488-496; key_order_of gives, for each English file, the order in
\* which its check visits its changed keys.
check_locale_based_files(extension, locales, location_order, key_order_of) ==
    LET to_check == en_files_to_check(extension, location_order)
        upto[i \in 0..Len(to_check)] ==
            IF i = 0 THEN <<>>
            ELSE upto[i - 1]
                 \o check_translations_func(extension, to_check[i],
                                            base_files[to_check[i]], locales,
                                            key_order_of[to_check[i]])
    IN  upto[Len(to_check)]

\* The iteration orders of the changed-key sets of the English files.
KeyOrderChoices(extension) ==
    LET keys_of(path) == file_changed_keys(extension, path, base_files[path])
        orders == UNION {IterationOrders(keys_of(path)) : path \in DOMAIN base_files}
    IN  {f \in [DOMAIN base_files -> orders] :
            \A path \in DOMAIN base_files : f[path] \in IterationOrders(keys_of(path))}

(***************************************************************************)
(* The locators on a working tree of any shape.  A path is the sequence of *)
(* its components: os.path.dirname drops the last one, os.path.basename    *)
(* takes it.                                                               *)
(***************************************************************************)
path_dirname(path) == SubSeq(path, 1, Len(path) - 1)
path_basename(path) == path[Len(path)]

\* os.path.exists(search_path), for a search path of one component.
os_path_exists(search_path) ==
    \E file \in tree : file[1] = search_path

\* os.walk(search_path): every directory at or below the search path with
\* the names of the regular files in it.
os_walk(search_path) ==
    LET dirs == UNION {{SubSeq(file, 1, n) : n \in 1..(Len(file) - 1)} :
                       file \in {g \in tree : g[1] = search_path}}
    IN  {[root |-> d,
          files |-> {path_basename(g) : g \in {h \in tree : path_dirname(h) = d}}] :
            d \in dirs}

\* A locator that takes every file with the extension, whatever directory
\* holds it.
find_locations_in_any_directory(extension, paths) ==
    UNION {IF ~os_path_exists(paths[i]) THEN {}
           ELSE UNION {{<<path_dirname(w.root), file>> :
                           file \in {f \in w.files : endswith(f, extension)}} :
                       w \in os_walk(paths[i])} :
           i \in DOMAIN paths}

\* Lines 269-285 and 366-382, the two locators but for the extension.
find_locations(extension, paths) ==
    UNION {IF ~os_path_exists(paths[i]) THEN {}
           ELSE UNION {{<<path_dirname(w.root), file>> :
                           file \in {f \in w.files :
                                       /\ endswith(f, extension)
                                       /\ endswith(path_basename(w.root), ".lproj")}} :
                       w \in os_walk(paths[i])} :
           i \in DOMAIN paths}

find_strings_file_locations(paths) == find_locations(".strings", paths)

find_stringsdict_file_locations(paths) == find_locations(".stringsdict", paths)

(***************************************************************************)
(* The translation integrity check (scripts/smartling).  A file content is *)
(* EmptyContent (""), RejectedContent (plutil exits with an error) or the  *)
(* JSON value plutil converts it to: objects and arrays keep their order.  *)
(***************************************************************************)
RejectedContent == [c |-> "rejected"]
ConvertedContent(v) == [c |-> "converted", v |-> v]

OrderedDict(pairs) == [t |-> "dict", pairs |-> pairs]
List(items) == [t |-> "list", items |-> items]

NoLeaves == [k \in {} |-> ""]

\* strings[key] = value, and strings.update(other).
WithLeaf(strings, key, value) ==
    [k \in DOMAIN strings \cup {key} |-> IF k = key THEN value ELSE strings[k]]
WithLeaves(strings, other) ==
    [k \in DOMAIN strings \cup DOMAIN other |->
        IF k \in DOMAIN other THEN other[k] ELSE strings[k]]

\* The characters of str(i) for an index below ten.
IndexDigits(i) == <<48 + i>>

\* Lines 84-114; a key of the result is the text of the path to the leaf.
RECURSIVE collect_string_leaves(_, _)
collect_string_leaves(obj, prefix) ==
    IF obj.t = "dict"
    THEN LET strings[i \in 0..Len(obj.pairs)] ==
                 IF i = 0 THEN NoLeaves
                 ELSE LET key == CodePoints[obj.pairs[i][1]]
                          value == obj.pairs[i][2]
                          new_prefix == IF prefix # <<>> THEN prefix \o <<46>> \o key
                                        ELSE key
                      IN  IF value.t = "str"
                          THEN WithLeaf(strings[i - 1], new_prefix, value.s)
                          ELSE IF value.t \in {"dict", "list"}
                          THEN WithLeaves(strings[i - 1],
                                          collect_string_leaves(value, new_prefix))
                          ELSE strings[i - 1]
         IN  strings[Len(obj.pairs)]
    ELSE IF obj.t = "list"
    THEN LET strings[i \in 0..Len(obj.items)] ==
                 IF i = 0 THEN NoLeaves
                 ELSE LET value == obj.items[i]
                          new_prefix == prefix \o <<91>> \o IndexDigits(i - 1) \o <<93>>
                      IN  IF value.t = "str"
                          THEN WithLeaf(strings[i - 1], new_prefix, value.s)
                          ELSE IF value.t \in {"dict", "list"}
                          THEN WithLeaves(strings[i - 1],
                                          collect_string_leaves(value, new_prefix))
                          ELSE strings[i - 1]
         IN  strings[Len(obj.items)]
    ELSE NoLeaves

\* parse_strings_file of the integrity check, lines 34-60: the object plutil
\* prints, as a dict.
integrity_parse_strings_file(content) ==
    IF content.c # "converted" THEN NoLeaves
    ELSE LET data[i \in 0..Len(content.v.pairs)] ==
                 IF i = 0 THEN NoLeaves
                 ELSE WithLeaf(data[i - 1], CodePoints[content.v.pairs[i][1]],
                               content.v.pairs[i][2].s)
         IN  data[Len(content.v.pairs)]

\* parse_stringsdict_file of the integrity check, lines 63-127.
integrity_parse_stringsdict_file(content) ==
    IF content.c # "converted" THEN NoLeaves
    ELSE collect_string_leaves(content.v, <<>>)

\* str.strip(): without the whitespace at both ends.
WhitespaceChars == {9, 10, 11, 12, 13, 28, 29, 30, 31, 32, 133, 160}

strip(text) ==
    LET kept == {i \in DOMAIN text : text[i] \notin WhitespaceChars} IN
    IF kept = {} THEN <<>>
    ELSE SubSeq(text, CHOOSE i \in kept : \A j \in kept : i <= j,
                      CHOOSE i \in kept : \A j \in kept : j <= i)

\* A shortening test on the exact half of the old length.
significantly_shortened_exact_half(old_val, new_val) ==
    2 * Len(new_val) < Len(old_val)

\* Line 189, second disjunct.
significantly_shortened(old_val, new_val) ==
    Len(new_val) < Len(old_val) \div 2

\* Lines 179-190 for one file: a key is deleted, or a value of a surviving
\* key is empty or significantly shortened.
file_fails(original, current) ==
    \/ DOMAIN original \ DOMAIN current # {}
    \/ \E key \in DOMAIN original \cap DOMAIN current :
          LET old_val == strip(CodePoints[original[key]])
              new_val == strip(CodePoints[current[key]])
          IN  new_val = <<>> \/ significantly_shortened(old_val, new_val)

\* Lines 166-192; git diff --name-only lists the paths in sorted order.
analyze_translation_changes ==
    LET files == SortedStrings(changed_files)
        from[i \in 1..(Len(files) + 1)] ==
            IF i > Len(files) THEN 0
            ELSE LET file_path == files[i]
                     working_content == working_files[file_path]
                     original_content == head_files[file_path]
                 IN  IF endswith(file_path, ".strings")
                     THEN IF file_fails(integrity_parse_strings_file(original_content),
                                        integrity_parse_strings_file(working_content))
                          THEN 1 ELSE from[i + 1]
                     ELSE IF endswith(file_path, ".stringsdict")
                     THEN IF file_fails(integrity_parse_stringsdict_file(original_content),
                                        integrity_parse_stringsdict_file(working_content))
                          THEN 1 ELSE from[i + 1]
                     ELSE from[i + 1]
    IN  from[1]

(***************************************************************************)
(* The inputs of a check, drawn from bounded sets.                         *)
(***************************************************************************)
SourceNames == <<"Welcome", "Welcome!", "Hello", "Hello!">>
SourceValues == {SourceNames[i] : i \in 1..NumSourceValues}

Locales == {"de", "fr"}
RequiredSets == {{}, {"de"}, {"de", "fr"}}

\* One localization entry: {"stringUnit": {"state": state, "value": value}},
\* the state left out when state is "absent".
LocUnit(state, value) ==
    Dict("stringUnit" :>
         Dict((IF state = "absent" THEN NoFields ELSE "state" :> Str(state))
              @@ ("value" :> Str(value))))

EnLocalizations ==
    {NoFields} \cup {"en" :> LocUnit("translated", v) : v \in SourceValues}

DeLocalizations ==
    {NoFields} \cup
    {"de" :> e : e \in {NonDict,
                        LocUnit("absent", "Willkommen"),
                        LocUnit("new", "Willkommen"),
                        LocUnit("translated", "Willkommen"),
                        LocUnit("translated", "Hallo"),
                        LocUnit("needs_review", "Willkommen")}}

FrLocalizations ==
    {NoFields} \cup {"fr" :> LocUnit("needs_review", "Bienvenue")}

\* The entries of the key "welcome", with the given shouldTranslate fields.
WelcomeEntries(should_translate_fields) ==
    {NonDict}
    \cup {Dict(st @@ ("localizations" :> NonDict)) : st \in should_translate_fields}
    \cup {Dict(st @@ ("localizations" :> Dict(en @@ de @@ fr))) :
            st \in should_translate_fields, en \in EnLocalizations,
            de \in DeLocalizations, fr \in FrLocalizations}

\* The entries of the key "save".
SaveEntries ==
    {Dict("localizations" :> NonDict),
     Dict("localizations" :>
          Dict(("en" :> LocUnit("translated", "Save"))
               @@ ("de" :> LocUnit("translated", "Sichern"))
               @@ ("fr" :> LocUnit("translated", "Enregistrer"))))}

CatalogStrings(should_translate_fields) ==
    {w @@ sv : w \in {NoFields} \cup
                     {"welcome" :> e : e \in WelcomeEntries(should_translate_fields)},
               sv \in {NoFields} \cup {"save" :> e : e \in SaveEntries}}

CatalogContents(should_translate_fields) ==
    {EmptyContent, InvalidContent,
     JsonContent(NonDict),
     JsonContent(Dict("sourceLanguage" :> Str("en"))),
     JsonContent(Dict("strings" :> NonDict))}
    \cup {JsonContent(Dict(("sourceLanguage" :> Str("en")) @@ ("strings" :> Dict(st)))) :
            st \in CatalogStrings(should_translate_fields)}

\* shouldTranslate is read from the current entry only.
BaseCatalogContents == CatalogContents({NoFields})
CurrentCatalogContents ==
    CatalogContents({NoFields, "shouldTranslate" :> Bool(FALSE),
                     "shouldTranslate" :> Bool(TRUE)})

\* The pieces of a .strings text: text the pattern does not match, the key
\* "save" with two values that differ in a trailing space, the key "cancel".
FlatPieces ==
    {OtherText, Pair("save", "Save"), Pair("save", "Save "), Pair("cancel", "Cancel")}

RECURSIVE SeqsUpTo(_, _)
SeqsUpTo(S, n) ==
    IF n = 0 THEN {<<>>}
    ELSE SeqsUpTo(S, n - 1) \cup
         {Append(q, x) : q \in {r \in SeqsUpTo(S, n - 1) : Len(r) = n - 1}, x \in S}

FlatContents == {TextContent(q) : q \in SeqsUpTo(FlatPieces, MaxStatements)}

\* A sibling locale file: absent, empty, or holding some of the keys, with a
\* translated, an empty or an untranslated (English) value.
FlatLocaleFiles ==
    {NoFile,
     TextContent(<<>>),
     TextContent(<<Pair("cancel", "Abbrechen")>>),
     TextContent(<<Pair("cancel", "")>>),
     TextContent(<<Pair("save", "Save"), OtherText, Pair("cancel", "Abbrechen")>>)}

\* A plural entry: a format key and one variable with its plural categories.
PluralValue(other) ==
    Dict(("NSStringLocalizedFormatKey" :> Str("%#@items@"))
         @@ ("items" :> Dict(("NSStringFormatSpecTypeKey" :> Str("NSStringPluralRuleType"))
                             @@ ("one" :> Str("%d item"))
                             @@ ("other" :> Str(other)))))

PluralValues == {PluralValue(v) : v \in SourceValues}
PluralDicts(values) ==
    {a @@ b : a \in {NoFields} \cup {"items" :> v : v \in values},
              b \in {NoFields} \cup {"tabs" :> v : v \in values}}
PluralContents ==
    {EmptyContent, InvalidContent, BrokenXmlContent, PlistContent(NonDict)}
    \cup {PlistContent(Dict(d)) : d \in PluralDicts(PluralValues)}
PluralLocaleFiles ==
    {NoFile, EmptyContent, BrokenXmlContent}
    \cup {PlistContent(Dict(d)) : d \in PluralDicts({PluralValue("%d Elemente")})}

XcstringsPath == "iOS/Localizable.xcstrings"
StringsPath == "iOS/en.lproj/Localizable.strings"
StringsdictPath == "iOS/en.lproj/Localizable.stringsdict"

\* Keys of 50 and of 51 characters; the two of 51 share their first 47.
Key50 == "settings.privacy.tracker.protection.description.on"
Key51Off == "settings.privacy.tracker.protection.description.off"
Key51One == "settings.privacy.tracker.protection.description.one"

\* The issues format_issues is called with.
FormatIssueSet ==
    {<<XcstringsPath, Key51One, {"de", "fr"}, ISSUE_TYPE_MISSING>>,
     <<XcstringsPath, Key51Off, {"de"}, ISSUE_TYPE_MISSING>>,
     <<XcstringsPath, Key51Off, {"fr"}, ISSUE_TYPE_NEEDS_REVIEW>>,
     <<XcstringsPath, "save", {"de", "fr"}, ISSUE_TYPE_NEEDS_REVIEW>>,
     <<StringsPath, Key50, {"de"}, ISSUE_TYPE_MISSING>>,
     <<StringsPath, "cancel", {"de", "fr"}, ISSUE_TYPE_MISSING>>,
     <<StringsPath, "save", {"fr"}, ISSUE_TYPE_MISSING>>}

InitResult ==
    /\ pc = "start"
    /\ raised = "none"
    /\ changed_keys = {}
    /\ issues = <<>>
    /\ output = <<>>

\* The git utilities are not part of the run: the module was just imported.
NoGitUtilities ==
    /\ environ = NoneV
    /\ base_branch_cache = NoneV
    /\ git_calls = <<>>

(***************************************************************************)
(* The git utilities: get_base_branch and its two callers.                 *)
(***************************************************************************)
\* A base branch computed from the environment at every call.
get_base_branch_uncached(cache, base_ref) ==
    IF base_ref # NoneV /\ base_ref.s # ""
    THEN Str(PathOf(CodePoints["origin/"] \o CodePoints[base_ref.s]))
    ELSE Str("origin/main")

\* get_base_branch, lines 25-37: what it returns, which is also the value
\* of _base_branch_cache after the call.
get_base_branch(cache, base_ref) ==
    IF cache # NoneV THEN cache
    ELSE IF base_ref # NoneV /\ base_ref.s # ""
    THEN Str(PathOf(CodePoints["origin/"] \o CodePoints[base_ref.s]))
    ELSE Str("origin/main")

\* A call of a git utility, the base revision of its git command (None if
\* it ran none) and the environment it ran in.
GitCall(function, base, base_ref) == [by |-> function, base |-> base, environ |-> base_ref]

\* Outside a run of the translation integrity check.
NoIntegrityCheck ==
    /\ head_files = <<>>
    /\ working_files = <<>>
    /\ exit_code = <<>>

\* A check function called on one file, outside a run of main.
NoRun ==
    /\ platform = "none"
    /\ changed_files = {}
    /\ lproj_files = <<>>
    /\ base_files = <<>>
    /\ tree = {}
    /\ locations = {}
    /\ NoIntegrityCheck
    /\ NoGitUtilities

InitCatalog ==
    /\ fmt = "xcstrings"
    /\ base_content \in BaseCatalogContents
    /\ current_content \in CurrentCatalogContents \cup {NoFile}
    /\ locale_files = [l \in Locales |-> NoFile]
    /\ required_locales \in RequiredSets
    /\ NoRun
    /\ InitResult

(***************************************************************************)
(* Catalogs whose key "welcome" has every shape of English localization.   *)
(***************************************************************************)
\* localizations.en of an entry: absent, not a mapping, without a value, with
\* the value null, "" or a source value.
SourceEnLocalizations ==
    {NoFields,
     "en" :> NonDict,
     "en" :> Dict("stringUnit" :> Dict("state" :> Str("translated"))),
     "en" :> Dict("stringUnit" :> Dict(("state" :> Str("translated"))
                                       @@ ("value" :> NoneV))),
     "en" :> LocUnit("translated", "")}
    \cup {"en" :> LocUnit("translated", v) : v \in SourceValues}

SourceEntries ==
    {NonDict, EmptyDict}
    \cup {Dict("localizations" :> Dict(en @@ de)) :
            en \in SourceEnLocalizations,
            de \in {NoFields, "de" :> LocUnit("translated", "Willkommen")}}

SourceCatalogContents ==
    {JsonContent(Dict(("sourceLanguage" :> Str("en")) @@ ("strings" :> Dict(st)))) :
        st \in {NoFields} \cup {"welcome" :> e : e \in SourceEntries}}

InitCatalogSource ==
    /\ fmt = "xcstrings"
    /\ base_content \in SourceCatalogContents
    /\ current_content \in SourceCatalogContents
    /\ locale_files = [l \in Locales |-> NoFile]
    /\ required_locales \in RequiredSets
    /\ NoRun
    /\ InitResult

InitFlat ==
    /\ fmt = "strings"
    /\ base_content \in FlatContents
    /\ current_content \in FlatContents \cup {NoFile}
    /\ locale_files \in [Locales -> FlatLocaleFiles]
    /\ required_locales \in RequiredSets
    /\ NoRun
    /\ InitResult

InitPlural ==
    /\ fmt = "stringsdict"
    /\ base_content \in PluralContents
    /\ current_content \in PluralContents \cup {NoFile}
    /\ locale_files \in [Locales -> PluralLocaleFiles]
    /\ required_locales \in RequiredSets
    /\ NoRun
    /\ InitResult

\* main holds the issue list of its three checks, lines 619-623.
InitFormat ==
    /\ fmt = "format_issues"
    /\ base_content = EmptyContent
    /\ current_content = NoFile
    /\ locale_files = [l \in Locales |-> NoFile]
    /\ required_locales \in RequiredSets
    /\ NoRun
    /\ pc = "done"
    /\ raised = "none"
    /\ changed_keys = {}
    /\ issues \in SeqsUpTo(FormatIssueSet, MaxIssues)
    /\ output = <<>>

(***************************************************************************)
(* A run of main on a working tree with two resource directories.          *)
(***************************************************************************)
RunDirs == {"iOS/Core", "SharedPackages/UI"}

RunFilename(f) ==
    IF f = "strings_files" THEN "Localizable.strings" ELSE "Localizable.stringsdict"
OtherFilename(f) ==
    IF f = "strings_files" THEN "Localizable.stringsdict" ELSE "Localizable.strings"
RunSiblingPath(f) ==
    IF f = "strings_files" THEN "iOS/Core/de.lproj/Localizable.strings"
    ELSE "iOS/Core/de.lproj/Localizable.stringsdict"

RunEnPath(f, dir) == os_path_join(dir, "en.lproj", RunFilename(f))

\* The English file: absent, with one key, with two keys.
RunEnContents(f) ==
    IF f = "strings_files"
    THEN {NoFile,
          TextContent(<<Pair("save", "Save")>>),
          TextContent(<<Pair("save", "Save"), Pair("cancel", "Cancel")>>)}
    ELSE {NoFile,
          PlistContent(Dict("items" :> PluralValue("%d items"))),
          PlistContent(Dict(("items" :> PluralValue("%d items"))
                            @@ ("tabs" :> PluralValue("%d tabs"))))}

\* The content at the base revision: "" (absent at base) or one key.
RunBaseContents(f) ==
    IF f = "strings_files"
    THEN {TextContent(<<>>), TextContent(<<Pair("save", "Save")>>)}
    ELSE {EmptyContent, BrokenXmlContent,
          PlistContent(Dict("items" :> PluralValue("%d items")))}

RunSiblingFull(f) ==
    IF f = "strings_files"
    THEN TextContent(<<Pair("save", "Sichern"), Pair("cancel", "Abbrechen")>>)
    ELSE PlistContent(Dict(("items" :> PluralValue("%d Elemente"))
                           @@ ("tabs" :> PluralValue("%d Tabs"))))

RunSiblingPartial(f) ==
    IF f = "strings_files" THEN TextContent(<<Pair("save", "Sichern")>>)
    ELSE PlistContent(Dict("items" :> PluralValue("%d Elemente")))

\* The sibling files of a directory: none, all complete, or all complete but
\* de (no file) and fr (first key only).
RunSiblings(f) ==
    {[locale \in IOS_LOCALES |-> NoFile],
     [locale \in IOS_LOCALES |-> RunSiblingFull(f)],
     [locale \in IOS_LOCALES |->
         IF locale = "de" THEN NoFile
         ELSE IF locale = "fr" THEN RunSiblingPartial(f)
         ELSE RunSiblingFull(f)]}

RunTree(f, en, siblings) ==
    [t \in (RunDirs \X ({"en"} \cup IOS_LOCALES) \X {RunFilename(f)})
            \cup {<<"iOS/Core", "en", OtherFilename(f)>>} |->
        IF t[3] = OtherFilename(f) THEN RunSiblingFull(IF f = "strings_files"
                                                       THEN "stringsdict_files"
                                                       ELSE "strings_files")
        ELSE IF t[2] = "en" THEN en[t[1]]
        ELSE siblings[t[1]][t[2]]]

\* What git diff lists below the search paths of the platform.
RunChangedFiles(f, p) ==
    LET below(S) == {path \in S : \E i \in DOMAIN get_search_paths(p) :
                                     UnderSearchPath(path, get_search_paths(p)[i])}
        core == RunEnPath(f, "iOS/Core")
        ui == RunEnPath(f, "SharedPackages/UI")
    IN  {below(S) : S \in {{},
                            {os_path_join("iOS/Core", "en.lproj", OtherFilename(f))},
                            {core}, {ui}, {core, ui},
                            {RunSiblingPath(f)},
                            {RunSiblingPath(f), ui}}}

InitMain ==
    /\ fmt \in {"strings_files", "stringsdict_files"}
    /\ platform \in {"iOS", "macOS"}
    /\ changed_files \in RunChangedFiles(fmt, platform)
    /\ lproj_files \in {RunTree(fmt, en, siblings) :
                            en \in [RunDirs -> RunEnContents(fmt)],
                            siblings \in [RunDirs -> RunSiblings(fmt)]}
    /\ base_files \in [{RunEnPath(fmt, dir) : dir \in RunDirs} -> RunBaseContents(fmt)]
    /\ tree = {}
    /\ locations = {}
    /\ NoIntegrityCheck
    /\ NoGitUtilities
    /\ base_content = EmptyContent
    /\ current_content = NoFile
    /\ locale_files = [l \in Locales |-> NoFile]
    /\ required_locales = {}
    /\ pc = "main"
    /\ raised = "none"
    /\ changed_keys = {}
    /\ issues = <<>>
    /\ output = <<>>

(***************************************************************************)
(* A call of a locator on a working tree.                                  *)
(***************************************************************************)
LocatorFiles ==
    {<<"iOS", "Core", "en.lproj", "Localizable.strings">>,
     <<"iOS", "Core", "de.lproj", "Localizable.strings">>,
     <<"iOS", "Core", "en.lproj", "Localizable.stringsdict">>,
     <<"iOS", "Core", "en.lproj", "Info.plist">>,
     <<"iOS", "Core", "Localizable.strings">>,
     <<"iOS", "Core", "lproj", "Localizable.strings">>,
     <<"iOS", "Core", "en.lproj", "Assets", "Localizable.strings">>,
     <<"iOS", "en.lproj", "Localizable.stringsdict">>,
     <<"SharedPackages", "UI", "en.lproj", "Localizable.strings">>,
     <<"SharedPackages", "UI", "de.lproj", "Localizable.stringsdict">>,
     <<"Other", "en.lproj", "Localizable.strings">>}

InitLocator ==
    /\ fmt \in {"find_strings_file_locations", "find_stringsdict_file_locations"}
    /\ platform \in {"iOS", "macOS"}
    /\ tree \in SUBSET LocatorFiles
    /\ locations = {}
    /\ NoIntegrityCheck
    /\ NoGitUtilities
    /\ changed_files = {}
    /\ lproj_files = <<>>
    /\ base_files = <<>>
    /\ base_content = EmptyContent
    /\ current_content = NoFile
    /\ locale_files = [l \in Locales |-> NoFile]
    /\ required_locales = {}
    /\ pc = "start"
    /\ raised = "none"
    /\ changed_keys = {}
    /\ issues = <<>>
    /\ output = <<>>

(***************************************************************************)
(* A run of the translation integrity check on three files.                *)
(***************************************************************************)
NumberValue == [t |-> "num"]

IntegrityValues == {"", " ", "Save", "Sav ", " Save File ", "Save File"}

\* A .strings file: "", rejected by plutil, or with or without the key save.
IntegrityStringsContents ==
    {EmptyContent, RejectedContent, ConvertedContent(OrderedDict(<<>>))}
    \cup {ConvertedContent(OrderedDict(<<<<"save", Str(v)>>>>)) : v \in IntegrityValues}

\* The plural rule "items" with its format key and its forms.
PluralRule(forms) ==
    ConvertedContent(OrderedDict(<<
        <<"items", OrderedDict(<<
            <<"NSStringLocalizedFormatKey", Str("%#@items@")>>,
            <<"items", forms>> >>)>> >>))

IntegrityStringsdictContents ==
    {EmptyContent, RejectedContent}
    \cup {PluralRule(OrderedDict(one \o <<<<"other", Str(v)>>>>)) :
            one \in {<<>>, <<<<"one", Str("%d item")>>>>},
            v \in {"%d items", "%d", ""}}
    \cup {PluralRule(List(<<Str("%d items"), NumberValue>>)),
          PluralRule(List(<<Str("%d items"), Str("%d item")>>))}

IntegrityPaths == {StringsPath, StringsdictPath, "iOS/Info.plist"}

\* A file of another kind that lost its only key.
IntegrityOtherHead == ConvertedContent(OrderedDict(<<<<"save", Str("Save")>>>>))
IntegrityOtherWorking == ConvertedContent(OrderedDict(<<>>))

IntegrityFiles(strings_content, stringsdict_content, other_content) ==
    [path \in IntegrityPaths |->
        IF path = StringsPath THEN strings_content
        ELSE IF path = StringsdictPath THEN stringsdict_content
        ELSE other_content]

\* git diff lists the files whose working copy differs from HEAD.
InitIntegrity ==
    /\ fmt = "analyze_translation_changes"
    /\ head_files \in {IntegrityFiles(a, b, IntegrityOtherHead) :
                           a \in IntegrityStringsContents,
                           b \in IntegrityStringsdictContents}
    /\ working_files \in {IntegrityFiles(a, b, c) :
                              a \in IntegrityStringsContents,
                              b \in IntegrityStringsdictContents,
                              c \in {IntegrityOtherHead, IntegrityOtherWorking}}
    /\ changed_files = {path \in IntegrityPaths : head_files[path] # working_files[path]}
    /\ exit_code = <<>>
    /\ NoGitUtilities
    /\ platform = "none"
    /\ lproj_files = <<>>
    /\ base_files = <<>>
    /\ tree = {}
    /\ locations = {}
    /\ base_content = EmptyContent
    /\ current_content = NoFile
    /\ locale_files = [l \in Locales |-> NoFile]
    /\ required_locales = {}
    /\ InitResult

(***************************************************************************)
(* A process that calls the git utilities while GITHUB_BASE_REF changes.   *)
(***************************************************************************)
BaseRefValues == {NoneV, Str(""), Str("main"), Str("release")}

InitBaseBranch ==
    /\ fmt = "git_utilities"
    /\ environ \in BaseRefValues
    /\ base_branch_cache = NoneV
    /\ git_calls = <<>>
    /\ NoIntegrityCheck
    /\ platform = "none"
    /\ changed_files = {}
    /\ lproj_files = <<>>
    /\ base_files = <<>>
    /\ tree = {}
    /\ locations = {}
    /\ base_content = EmptyContent
    /\ current_content = NoFile
    /\ locale_files = [l \in Locales |-> NoFile]
    /\ required_locales = {}
    /\ InitResult

Init == InitCatalog \/ InitFlat \/ InitPlural \/ InitFormat \/ InitMain \/ InitLocator
        \/ InitCatalogSource \/ InitIntegrity \/ InitBaseBranch

(***************************************************************************)
(* The checks.                                                             *)
(***************************************************************************)
Return(keys, list) ==
    /\ pc' = "done"
    /\ raised' = "none"
    /\ changed_keys' = keys
    /\ issues' = list
    /\ UNCHANGED output

\* An exception escapes from the function named where: nothing is returned.
Raise(keys, where) ==
    /\ pc' = "done"
    /\ raised' = where
    /\ changed_keys' = keys
    /\ issues' = <<>>
    /\ UNCHANGED output

Inputs == <<fmt, base_content, current_content, locale_files, required_locales,
            platform, changed_files, lproj_files, base_files, tree, locations,
            head_files, working_files, exit_code, environ, base_branch_cache,
            git_calls>>

\* check_xcstrings_files, lines 510-527, for one changed .xcstrings file.
CheckXcstringsFile ==
    /\ fmt = "xcstrings"
    /\ pc = "start"
    /\ UNCHANGED Inputs
    /\ IF current_content.c = "nofile" THEN Return({}, <<>>)
       ELSE LET current_data == parse_xcstrings(current_content)
                base_data == parse_xcstrings(base_content)
            IN
            IF get_changed_string_keys_raises(base_data, current_data)
            THEN Raise({}, "get_changed_string_keys")
            ELSE LET keys == get_changed_string_keys(base_data, current_data) IN
                 IF keys = {} THEN Return(keys, <<>>)
                 ELSE IF check_missing_raises(current_data, required_locales, keys)
                 THEN Raise(keys, "check_xcstrings_strings_missing_translations")
                 ELSE IF check_needs_review_raises(current_data, base_data,
                                                   required_locales, keys)
                 THEN Raise(keys, "check_xcstrings_needs_review")
                 ELSE \E key_order \in IterationOrders(keys) :
                         Return(keys,
                                check_xcstrings_strings_missing_translations(
                                    XcstringsPath, current_data, required_locales,
                                    keys, key_order)
                                \o check_xcstrings_needs_review(
                                    XcstringsPath, current_data, base_data,
                                    required_locales, keys, key_order))

\* check_strings_translations for one English .strings file.
CheckStringsTranslations ==
    /\ fmt = "strings"
    /\ pc = "start"
    /\ UNCHANGED Inputs
    /\ IF current_content.c = "nofile" THEN Return({}, <<>>)
       ELSE LET current_strings == parse_strings_file(current_content)
                base_strings == parse_strings_file(base_content)
                keys == strings_changed_keys(current_strings, base_strings)
                locale_keys == [locale \in required_locales |->
                                   strings_locale_keys(locale_files, locale)]
            IN
            IF keys = {} THEN Return(keys, <<>>)
            ELSE \E key_order \in IterationOrders(keys) :
                    Return(keys, locale_missing_issues(StringsPath, locale_keys,
                                                       required_locales, key_order))

\* check_stringsdict_translations for one English .stringsdict file.
CheckStringsdictTranslations ==
    /\ fmt = "stringsdict"
    /\ pc = "start"
    /\ UNCHANGED Inputs
    /\ IF current_content.c = "nofile" THEN Return({}, <<>>)
       ELSE IF \/ plistlib_loads_raises_uncaught(current_content)
               \/ plistlib_loads_raises_uncaught(base_content)
       THEN Raise({}, "parse_stringsdict_file_full")
       ELSE LET current_data == parse_stringsdict_file_full(current_content)
                base_data == parse_stringsdict_file_full(base_content)
                keys == stringsdict_changed_keys(current_data, base_data)
                locale_keys == [locale \in required_locales |->
                                   stringsdict_locale_keys(locale_files, locale)]
            IN
            IF keys = {} THEN Return(keys, <<>>)
            ELSE IF \E locale \in required_locales :
                       plistlib_loads_raises_uncaught(locale_files[locale])
            THEN Raise(keys, "parse_stringsdict_file")
            ELSE \E key_order \in IterationOrders(keys) :
                    Return(keys, locale_missing_issues(StringsdictPath, locale_keys,
                                                       required_locales, key_order))

\* find_strings_file_locations(paths), lines 262-285.
FindStringsFileLocations ==
    /\ fmt = "find_strings_file_locations"
    /\ pc = "start"
    /\ pc' = "located"
    /\ locations' = find_strings_file_locations(get_search_paths(platform))
    /\ UNCHANGED <<fmt, base_content, current_content, locale_files, required_locales,
                   platform, changed_files, lproj_files, base_files, tree,
                   raised, changed_keys, issues, output, head_files,
                   working_files, exit_code, environ, base_branch_cache, git_calls>>

\* find_stringsdict_file_locations(paths), lines 359-382.
FindStringsdictFileLocations ==
    /\ fmt = "find_stringsdict_file_locations"
    /\ pc = "start"
    /\ pc' = "located"
    /\ locations' = find_stringsdict_file_locations(get_search_paths(platform))
    /\ UNCHANGED <<fmt, base_content, current_content, locale_files, required_locales,
                   platform, changed_files, lproj_files, base_files, tree,
                   raised, changed_keys, issues, output, head_files,
                   working_files, exit_code, environ, base_branch_cache, git_calls>>

\* analyze_translation_changes, lines 160-192, and the exit of main.
AnalyzeTranslationChanges ==
    /\ fmt = "analyze_translation_changes"
    /\ pc = "start"
    /\ pc' = "exited"
    /\ exit_code' = <<analyze_translation_changes>>
    /\ UNCHANGED <<fmt, base_content, current_content, locale_files, required_locales,
                   platform, changed_files, lproj_files, base_files, tree, locations,
                   raised, changed_keys, issues, output, head_files, working_files,
                   environ, base_branch_cache, git_calls>>

\* What the actions of the git utilities leave alone.
NotGitUtilities ==
    <<fmt, base_content, current_content, locale_files, required_locales, platform,
      changed_files, lproj_files, base_files, tree, locations, pc, raised,
      changed_keys, issues, output, head_files, working_files, exit_code>>

\* get_changed_files, lines 63-88: the base of its git diff.
GetChangedFiles ==
    /\ fmt = "git_utilities"
    /\ Len(git_calls) < MaxCalls
    /\ base_branch_cache' = get_base_branch(base_branch_cache, environ)
    /\ git_calls' = Append(git_calls,
                           GitCall("get_changed_files",
                                   get_base_branch(base_branch_cache, environ), environ))
    /\ UNCHANGED <<NotGitUtilities, environ>>

\* get_files_content_at_base, lines 39-61: the base of its git show commands;
\* with no file path it returns before it asks for the base.
GetFilesContentAtBase ==
    /\ fmt = "git_utilities"
    /\ Len(git_calls) < MaxCalls
    /\ \E no_file_paths \in BOOLEAN :
          IF no_file_paths
          THEN /\ git_calls' = Append(git_calls,
                                      GitCall("get_files_content_at_base", NoneV, environ))
               /\ UNCHANGED base_branch_cache
          ELSE /\ base_branch_cache' = get_base_branch(base_branch_cache, environ)
               /\ git_calls' = Append(git_calls,
                                      GitCall("get_files_content_at_base",
                                              get_base_branch(base_branch_cache, environ),
                                              environ))
    /\ UNCHANGED <<NotGitUtilities, environ>>

\* GITHUB_BASE_REF is set, changed or removed between two calls.
SetBaseRef ==
    /\ fmt = "git_utilities"
    /\ Len(git_calls) < MaxCalls
    /\ \E base_ref \in BaseRefValues \ {environ} : environ' = base_ref
    /\ UNCHANGED <<NotGitUtilities, base_branch_cache, git_calls>>

\* main, lines 606-617: the required locales, and the exit when nothing changed.
NoChangesLine == [line |-> "No localization files changed"]

MainStart ==
    /\ pc = "main"
    /\ required_locales' = get_required_locales(platform)
    /\ IF changed_files = {}
       THEN pc' = "reported" /\ output' = <<NoChangesLine>>
       ELSE pc' = "start" /\ UNCHANGED output
    /\ UNCHANGED <<fmt, base_content, current_content, locale_files, platform,
                   changed_files, lproj_files, base_files, raised, changed_keys,
                   issues, tree, locations, head_files, working_files, exit_code,
                   environ, base_branch_cache, git_calls>>

\* check_locale_based_files for one extension, lines 471-496.
CheckLocaleBasedFiles(extension) ==
    /\ pc = "start"
    /\ UNCHANGED Inputs
    /\ \E location_order \in IterationOrders(
              find_locations_func(extension, get_search_paths(platform))) :
          IF check_locale_based_files_raises(extension, required_locales, location_order)
          THEN Raise({}, "check_stringsdict_translations")
          ELSE \E key_order_of \in KeyOrderChoices(extension) :
                  Return(UNION {{k \in DOMAIN CodePoints :
                                    \E i \in DOMAIN key_order_of[path] :
                                        key_order_of[path][i] = k} :
                                path \in {q \in DOMAIN base_files :
                                    \E j \in DOMAIN en_files_to_check(extension, location_order) :
                                        en_files_to_check(extension, location_order)[j] = q}},
                         check_locale_based_files(extension, required_locales,
                                                  location_order, key_order_of))

\* check_strings_files, lines 531-540.
CheckStringsFiles == fmt = "strings_files" /\ CheckLocaleBasedFiles(".strings")

\* check_stringsdict_files, lines 542-551.
CheckStringsdictFiles == fmt = "stringsdict_files" /\ CheckLocaleBasedFiles(".stringsdict")

\* main, lines 623-630: the report of the issue list.
AllTranslatedLine == [line |-> "All strings have translations"]

Report ==
    /\ pc = "done"
    /\ raised = "none"
    /\ pc' = "reported"
    /\ output' = IF issues # <<>> THEN format_issues(issues, required_locales)
                 ELSE <<AllTranslatedLine>>
    /\ UNCHANGED <<Inputs, raised, changed_keys, issues>>

Next ==
    \/ CheckXcstringsFile
    \/ CheckStringsTranslations
    \/ CheckStringsdictTranslations
    \/ MainStart
    \/ CheckStringsFiles
    \/ CheckStringsdictFiles
    \/ FindStringsFileLocations
    \/ FindStringsdictFileLocations
    \/ AnalyzeTranslationChanges
    \/ GetChangedFiles
    \/ GetFilesContentAtBase
    \/ SetBaseRef
    \/ Report

Spec == Init /\ [][Next]_vars

SpecCatalog == InitCatalog /\ [][CheckXcstringsFile]_vars
SpecCatalogSource == InitCatalogSource /\ [][CheckXcstringsFile]_vars
SpecFlat == InitFlat /\ [][CheckStringsTranslations]_vars
SpecPlural == InitPlural /\ [][CheckStringsdictTranslations]_vars

SpecLocaleBased ==
    /\ InitFlat \/ InitPlural
    /\ [][CheckStringsTranslations \/ CheckStringsdictTranslations]_vars

\* A run of main that checks the .strings or the .stringsdict files.
SpecMain ==
    InitMain /\ [][MainStart \/ CheckStringsFiles \/ CheckStringsdictFiles \/ Report]_vars

\* The two locators on the trees of InitLocator.
SpecLocator ==
    InitLocator /\ [][FindStringsFileLocations \/ FindStringsdictFileLocations]_vars

\* The translation integrity check on the files of InitIntegrity.
SpecIntegrity == InitIntegrity /\ [][AnalyzeTranslationChanges]_vars

\* The git utilities called in any order while GITHUB_BASE_REF changes.
SpecBaseBranch ==
    InitBaseBranch /\ [][GetChangedFiles \/ GetFilesContentAtBase \/ SetBaseRef]_vars

\* format_issues on the issue lists of InitFormat.
SpecFormat == InitFormat /\ [][Report]_vars

\* The three check functions, each on one file.
SpecChecks ==
    /\ InitCatalog \/ InitFlat \/ InitPlural
    /\ [][CheckXcstringsFile \/ CheckStringsTranslations
            \/ CheckStringsdictTranslations]_vars

(***************************************************************************)
(* What the properties speak of: the entries of a snapshot, the English    *)
(* source value and the per-locale state of a catalog entry (read along    *)
(* the path localizations.<locale>.stringUnit.<field>), and the issues     *)
(* that name a key and a locale.                                           *)
(***************************************************************************)
\* The key -> entry table of a snapshot; a snapshot that does not decode to
\* a table of entries has none.
SnapshotEntries(content) ==
    IF fmt = "xcstrings"
    THEN IF /\ content.c = "json"
            /\ IsDict(content.v)
            /\ "strings" \in KeysOf(content.v)
            /\ IsDict(content.v.d["strings"])
         THEN content.v.d["strings"].d
         ELSE NoFields
    ELSE IF fmt = "strings"
    THEN IF content.c = "text" THEN parse_strings_file(content) ELSE NoFields
    ELSE IF content.c = "plist" /\ IsDict(content.v) THEN content.v.d ELSE NoFields

BaseEntries == SnapshotEntries(base_content)
CurrentEntries == SnapshotEntries(current_content)
BaseKeys == DOMAIN BaseEntries
CurrentKeys == DOMAIN CurrentEntries
CommonKeys == BaseKeys \cap CurrentKeys

HasDictAt(v, k) == IsDict(v) /\ k \in KeysOf(v) /\ IsDict(v.d[k])

\* entry.localizations.<locale>.stringUnit.<field>, or absent
FieldAt(entry, locale, field, absent) ==
    IF /\ HasDictAt(entry, "localizations")
       /\ HasDictAt(entry.d["localizations"], locale)
       /\ HasDictAt(entry.d["localizations"].d[locale], "stringUnit")
       /\ field \in KeysOf(entry.d["localizations"].d[locale].d["stringUnit"])
    THEN entry.d["localizations"].d[locale].d["stringUnit"].d[field]
    ELSE absent

EnglishValueAt(entry) == FieldAt(entry, "en", "value", Str(""))
StateAt(entry, locale) == FieldAt(entry, locale, "state", NoneV)

\* The entry is a mapping that shouldTranslate == false does not exempt.
Translatable(entry) ==
    /\ IsDict(entry)
    /\ ~("shouldTranslate" \in KeysOf(entry) /\ entry.d["shouldTranslate"] = Bool(FALSE))

\* Some issue of the given kind names the key and the locale.
IssueNames(key, locale, kind) ==
    \E i \in DOMAIN issues :
        /\ IssueKey(issues[i]) = key
        /\ IssueType(issues[i]) = kind
        /\ locale \in IssueLocales(issues[i])

IssueAbout(key) == \E i \in DOMAIN issues : IssueKey(issues[i]) = key

Returned == pc = "done" /\ raised = "none"

(***************************************************************************)
(* C1.  Flat and plural formats: for every pair of parsed snapshots the    *)
(* changed-key set is (current keys - base keys) united with the common    *)
(* keys whose values differ; a key whose value is identical in both        *)
(* snapshots is never in it.                                               *)
(***************************************************************************)
SnapshotsParsed ==
    /\ pc = "done"
    /\ fmt \in {"strings", "stringsdict"}
    /\ current_content.c # "nofile"
    /\ raised # "parse_stringsdict_file_full"

\* C1: for parsed flat or plural snapshots the changed-key set is exactly the
\* new keys and the common keys whose values differ, and holds no key whose
\* value is identical in both snapshots.
C1_ChangedKeysFlatPlural ==
    SnapshotsParsed =>
        /\ changed_keys = (CurrentKeys \ BaseKeys) \cup
                          {k \in CommonKeys : CurrentEntries[k] # BaseEntries[k]}
        /\ \A k \in CommonKeys : CurrentEntries[k] = BaseEntries[k] => k \notin changed_keys

\* C1 witness: a modified key is in the set next to an unchanged key that is not.
C1_Witness ==
    /\ SnapshotsParsed
    /\ \E k \in CommonKeys : CurrentEntries[k] # BaseEntries[k] /\ k \in changed_keys
    /\ \E k \in CommonKeys : CurrentEntries[k] = BaseEntries[k] /\ k \notin changed_keys

(***************************************************************************)
(* C2.  Whenever the current content equals the base content, in each      *)
(* format, the changed-key set is empty and the check returns an empty     *)
(* issue list.                                                             *)
(***************************************************************************)
\* C2: when the current content equals the base content the check returns,
\* with an empty changed-key set and an empty issue list.
C2_IdenticalContentNoIssues ==
    (pc = "done" /\ current_content = base_content) =>
        /\ raised = "none"
        /\ changed_keys = {}
        /\ issues = <<>>

\* C2, of the checks that return only: equal contents give no changed key and
\* no issue.
C2_IdenticalContentWhenReturned ==
    (Returned /\ current_content = base_content) =>
        changed_keys = {} /\ issues = <<>>

(***************************************************************************)
(* C3.  In every format every key present in the current snapshot and      *)
(* absent from the base snapshot is in the changed-key set, and a key      *)
(* present only in the base snapshot is in neither the changed-key set nor *)
(* any issue.                                                              *)
(***************************************************************************)
\* C3: every key of the current snapshot that the base snapshot lacks is in the
\* changed-key set; a key of the base snapshot only is in neither the set nor
\* an issue.
C3_NewKeysChangedDeletedKeysNot ==
    pc = "done" =>
        /\ \A k \in CurrentKeys \ BaseKeys : k \in changed_keys
        /\ \A k \in BaseKeys \ CurrentKeys : k \notin changed_keys /\ ~IssueAbout(k)

\* C3, of the checks that return only.
C3_NewKeysWhenReturned ==
    Returned =>
        /\ \A k \in CurrentKeys \ BaseKeys : k \in changed_keys
        /\ \A k \in BaseKeys \ CurrentKeys : k \notin changed_keys /\ ~IssueAbout(k)

(***************************************************************************)
(* C4.  Catalog format, keys present in both snapshots: a key whose only   *)
(* difference is in a non-English locale's value or state is not in the    *)
(* changed-key set, and a key whose English source value differs is in it. *)
(***************************************************************************)
\* The entry with every non-English localization removed.
WithoutNonEnglish(entry) ==
    Dict([f \in KeysOf(entry) |->
            IF f = "localizations"
            THEN Dict([l \in KeysOf(entry.d[f]) \cap {"en"} |-> entry.d[f].d[l]])
            ELSE entry.d[f]])

OnlyNonEnglishDiffers(old_entry, new_entry) ==
    /\ HasDictAt(old_entry, "localizations")
    /\ HasDictAt(new_entry, "localizations")
    /\ old_entry # new_entry
    /\ WithoutNonEnglish(old_entry) = WithoutNonEnglish(new_entry)

CatalogKeysCompared == fmt = "xcstrings" /\ pc = "done"

\* C4, first half: a key that differs only in non-English localizations is not
\* in the changed-key set.
C4_TranslationOnlyChangeIgnored ==
    CatalogKeysCompared =>
        \A k \in CommonKeys :
            OnlyNonEnglishDiffers(BaseEntries[k], CurrentEntries[k]) => k \notin changed_keys

\* C4 as claimed: and a key whose English source value differs is in the set,
\* whatever the rest of the two entries is.
C4_SourceChangeAlwaysDetected ==
    CatalogKeysCompared =>
        /\ C4_TranslationOnlyChangeIgnored
        /\ \A k \in CommonKeys :
              EnglishValueAt(BaseEntries[k]) # EnglishValueAt(CurrentEntries[k])
                  => k \in changed_keys

\* C4 as amended: and a key whose English source value differs is in the set
\* when both of its entries are mappings.
C4_SourceChangeDetectedInMappings ==
    CatalogKeysCompared =>
        /\ C4_TranslationOnlyChangeIgnored
        /\ \A k \in CommonKeys :
              (/\ IsDict(BaseEntries[k])
               /\ IsDict(CurrentEntries[k])
               /\ EnglishValueAt(BaseEntries[k]) # EnglishValueAt(CurrentEntries[k]))
                  => k \in changed_keys

\* C4 witness: the English value and the German state of a key both changed,
\* and the key is in the set.
C4_Witness ==
    /\ CatalogKeysCompared
    /\ \E k \in CommonKeys :
          /\ IsDict(BaseEntries[k])
          /\ IsDict(CurrentEntries[k])
          /\ EnglishValueAt(BaseEntries[k]) # EnglishValueAt(CurrentEntries[k])
          /\ EnglishValueAt(BaseEntries[k]) # Str("")
          /\ EnglishValueAt(CurrentEntries[k]) # Str("")
          /\ StateAt(BaseEntries[k], "de") # StateAt(CurrentEntries[k], "de")
          /\ k \in changed_keys

\* C4, the other case: only a non-English localization changed, and the key is
\* not in the set.
C4_WitnessTranslationOnly ==
    /\ CatalogKeysCompared
    /\ \E k \in CommonKeys :
          /\ OnlyNonEnglishDiffers(BaseEntries[k], CurrentEntries[k])
          /\ k \notin changed_keys

(***************************************************************************)
(* C5.  Scenario B, catalog format: a key's English source value changes   *)
(* while a required locale's entry is left untouched with state            *)
(* translated.                                                             *)
(***************************************************************************)
ScenarioB(k, locale) ==
    /\ fmt = "xcstrings"
    /\ pc = "done"
    /\ k \in CommonKeys
    /\ locale \in required_locales
    /\ HasDictAt(BaseEntries[k], "localizations")
    /\ HasDictAt(CurrentEntries[k], "localizations")
    /\ EnglishValueAt(BaseEntries[k]) # EnglishValueAt(CurrentEntries[k])
    /\ locale \in KeysOf(BaseEntries[k].d["localizations"])
    /\ locale \in KeysOf(CurrentEntries[k].d["localizations"])
    /\ CurrentEntries[k].d["localizations"].d[locale]
         = BaseEntries[k].d["localizations"].d[locale]
    /\ StateAt(CurrentEntries[k], locale) = Str("translated")

\* C5 as claimed: in Scenario B the key is changed and a missing issue names the
\* untouched, translated locale (false already of the checks that return).
C5_StaleTranslationReportedMissing ==
    \A k \in CommonKeys, locale \in Locales :
        (ScenarioB(k, locale) /\ Returned) =>
            k \in changed_keys /\ IssueNames(k, locale, ISSUE_TYPE_MISSING)

\* C5 as amended: in Scenario B the key is changed and no missing issue names
\* the untouched, translated locale.
C5_TranslatedStateSatisfiesCoverage ==
    \A k \in CommonKeys, locale \in Locales :
        ScenarioB(k, locale) =>
            k \in changed_keys /\ ~IssueNames(k, locale, ISSUE_TYPE_MISSING)

\* C5 witness: Scenario B for de in a check that returns and reports another
\* locale.
C5_Witness ==
    /\ Returned
    /\ issues # <<>>
    /\ \E k \in CommonKeys : ScenarioB(k, "de") /\ Translatable(CurrentEntries[k])

(***************************************************************************)
(* C6.  Catalog missing check: for every changed, translatable key and     *)
(* every required locale, a missing issue names the locale if and only if  *)
(* the current entry has no localization for it or the localization's      *)
(* state is neither translated nor needs_review (an absent state           *)
(* included).                                                              *)
(***************************************************************************)
NoValidTranslation(entry, locale) ==
    /\ StateAt(entry, locale) # Str("translated")
    /\ StateAt(entry, locale) # Str("needs_review")

MissingExactlyWhereNoValidTranslation ==
    \A k \in changed_keys \cap CurrentKeys :
        Translatable(CurrentEntries[k]) =>
            \A locale \in required_locales :
                IssueNames(k, locale, ISSUE_TYPE_MISSING)
                    <=> NoValidTranslation(CurrentEntries[k], locale)

\* C6: for every changed, translatable key and required locale, a missing issue
\* names the locale iff the entry has no valid translation for it.
C6_MissingIffNoValidTranslation ==
    (fmt = "xcstrings" /\ pc = "done") => MissingExactlyWhereNoValidTranslation

\* C6, of the checks that return only.
C6_MissingIffWhenReturned ==
    (fmt = "xcstrings" /\ Returned) => MissingExactlyWhereNoValidTranslation

(***************************************************************************)
(* C7.  Needs-review suppression, catalog format: a locale whose state is  *)
(* needs_review in both snapshots is named by no needs-review issue of the *)
(* key; a locale whose state newly becomes needs_review is named by one.   *)
(***************************************************************************)
AlreadyNeedsReview(k, locale) ==
    /\ k \in BaseKeys
    /\ StateAt(BaseEntries[k], locale) = Str("needs_review")

NewlyNeedsReview(k, locale) ==
    /\ k \in CurrentKeys
    /\ StateAt(CurrentEntries[k], locale) = Str("needs_review")
    /\ ~AlreadyNeedsReview(k, locale)

NeedsReviewSuppressed ==
    \A k \in CurrentKeys, locale \in required_locales :
        (/\ StateAt(CurrentEntries[k], locale) = Str("needs_review")
         /\ AlreadyNeedsReview(k, locale))
            => ~IssueNames(k, locale, ISSUE_TYPE_NEEDS_REVIEW)

\* No localizations value of either snapshot is anything but a mapping.
LocalizationsAreMappings ==
    \A entries \in {BaseEntries, CurrentEntries} :
        \A k \in DOMAIN entries :
            (IsDict(entries[k]) /\ "localizations" \in KeysOf(entries[k]))
                => IsDict(entries[k].d["localizations"])

MalformedChangedKey(k) ==
    /\ fmt = "xcstrings"
    /\ pc = "done"
    /\ k \in changed_keys \cap CurrentKeys
    /\ ~IsDict(CurrentEntries[k])

\* C8 as claimed: a changed key whose current entry is not a mapping is reported
\* missing for the full required-locale set (false already of the checks that
\* return, with some locale required).
C8_MalformedEntryReportedMissing ==
    \A k \in changed_keys :
        (MalformedChangedKey(k) /\ Returned /\ required_locales # {}) =>
            \E i \in DOMAIN issues :
                /\ IssueKey(issues[i]) = k
                /\ IssueType(issues[i]) = ISSUE_TYPE_MISSING
                /\ IssueLocales(issues[i]) = required_locales

\* C8 as amended: a changed key whose current entry is not a mapping is skipped;
\* no issue of either kind names it.
C8_MalformedEntrySkipped ==
    \A k \in changed_keys : MalformedChangedKey(k) => ~IssueAbout(k)

\* C8 witness: a check that returns, with a required locale and a changed key
\* whose entry is not a mapping.
C8_Witness ==
    /\ Returned
    /\ required_locales # {}
    /\ \E k \in changed_keys : MalformedChangedKey(k)

(***************************************************************************)
(* C9.  The catalog check never aborts: for every pair of catalog          *)
(* snapshots it returns an issue list.                                     *)
(***************************************************************************)
\* C9: the catalog check returns an issue list for every pair of catalog
\* snapshots; no exception escapes.
C9_CatalogCheckNeverAborts ==
    (fmt = "xcstrings" /\ pc = "done") => raised = "none"

(***************************************************************************)
(* C10.  When the base content is empty or unparsable its parser returns   *)
(* no entries instead of failing, and every key of the current snapshot is *)
(* in the changed-key set.                                                 *)
(***************************************************************************)
BaseEmptyOrUnparsable ==
    \/ base_content.c \in {"empty", "invalid", "broken_xml"}
    \/ /\ base_content.c = "text"
       /\ \A i \in DOMAIN base_content.pieces : base_content.pieces[i].m # "pair"

CurrentParsed ==
    /\ current_content.c \notin {"nofile", "broken_xml"}
    /\ fmt = "xcstrings" =>
          /\ IsDict(parse_xcstrings(current_content))
          /\ IsDict(Get(parse_xcstrings(current_content), "strings", EmptyDict))

\* C10: with an empty or unparsable base content and a parsed current content,
\* no parser fails and every key of the current snapshot is changed.
C10_UnparsableBaseAllKeysNew ==
    (pc = "done" /\ BaseEmptyOrUnparsable /\ CurrentParsed) =>
        /\ raised \notin {"parse_stringsdict_file_full", "get_changed_string_keys"}
        /\ changed_keys = CurrentKeys

\* C10, for every base content but the XML text on which plistlib raises an
\* exception that parse_stringsdict_file_full does not catch.
C10_EmptyOrRejectedBaseAllKeysNew ==
    (pc = "done" /\ BaseEmptyOrUnparsable /\ CurrentParsed
        /\ base_content.c # "broken_xml") =>
        /\ raised \notin {"parse_stringsdict_file_full", "get_changed_string_keys"}
        /\ changed_keys = CurrentKeys

(***************************************************************************)
(* C11.  Keys whose current entry has shouldTranslate == false are exempt  *)
(* from both catalog checks; a key with shouldTranslate absent or true is  *)
(* checked by the rules of the missing and the needs-review check.         *)
(***************************************************************************)
ShouldTranslateFalse(entry) ==
    /\ IsDict(entry)
    /\ "shouldTranslate" \in KeysOf(entry)
    /\ entry.d["shouldTranslate"] = Bool(FALSE)

ShouldTranslateAbsentOrTrue(entry) ==
    /\ IsDict(entry)
    /\ "shouldTranslate" \in KeysOf(entry) => entry.d["shouldTranslate"] = Bool(TRUE)

\* C11: no issue of either kind names a key whose current entry has
\* shouldTranslate == false, changed or not and whatever its per-locale states;
\* in the issue list the check returns, a changed key with shouldTranslate
\* absent or true is named missing exactly for the required locales without a
\* valid translation and needs-review exactly for those newly needs_review.
C11_ShouldTranslateFalseExempt ==
    (fmt = "xcstrings" /\ pc = "done") =>
        /\ \A k \in CurrentKeys :
              ShouldTranslateFalse(CurrentEntries[k]) => ~IssueAbout(k)
        /\ Returned =>
              \A k \in changed_keys \cap CurrentKeys, locale \in required_locales :
                  ShouldTranslateAbsentOrTrue(CurrentEntries[k]) =>
                      /\ IssueNames(k, locale, ISSUE_TYPE_MISSING)
                            <=> NoValidTranslation(CurrentEntries[k], locale)
                      /\ IssueNames(k, locale, ISSUE_TYPE_NEEDS_REVIEW)
                            <=> NewlyNeedsReview(k, locale)

\* C11 witness: a changed key with shouldTranslate == false, without a
\* translation for one required locale and newly needs_review for another, and
\* no issue about it.
C11_Witness ==
    /\ fmt = "xcstrings"
    /\ Returned
    /\ required_locales = {"de", "fr"}
    /\ \E k \in changed_keys \cap CurrentKeys :
          /\ ShouldTranslateFalse(CurrentEntries[k])
          /\ NoValidTranslation(CurrentEntries[k], "de")
          /\ NewlyNeedsReview(k, "fr")
          /\ ~IssueAbout(k)

\* C11, the other case: a changed key with shouldTranslate == true is reported
\* missing and needs-review.
C11_WitnessShouldTranslateTrue ==
    /\ fmt = "xcstrings"
    /\ Returned
    /\ \E k \in changed_keys \cap CurrentKeys :
          /\ ShouldTranslateAbsentOrTrue(CurrentEntries[k])
          /\ "shouldTranslate" \in KeysOf(CurrentEntries[k])
          /\ IssueNames(k, "de", ISSUE_TYPE_MISSING)
          /\ IssueNames(k, "fr", ISSUE_TYPE_NEEDS_REVIEW)

(***************************************************************************)
(* C12.  Every issue of every check has a non-empty locale set and names a *)
(* required locale that fails the issue's check for the issue's key; with  *)
(* no required locale there is no issue.                                   *)
(***************************************************************************)
\* The keys the sibling file of a locale holds; none when the file does not
\* exist or does not decode to a table of entries.
SiblingKeys(locale) ==
    LET file == locale_files[locale] IN
    IF fmt = "strings"
    THEN IF file.c = "text"
         THEN {file.pieces[i].k : i \in {j \in DOMAIN file.pieces : file.pieces[j].m = "pair"}}
         ELSE {}
    ELSE IF file.c = "plist" /\ IsDict(file.v) THEN KeysOf(file.v) ELSE {}

\* The locale fails the check of the given kind for the key.
FailsCheck(key, locale, kind) ==
    IF fmt = "xcstrings"
    THEN /\ key \in CurrentKeys
         /\ IF kind = ISSUE_TYPE_MISSING
            THEN NoValidTranslation(CurrentEntries[key], locale)
            ELSE NewlyNeedsReview(key, locale)
    ELSE kind = ISSUE_TYPE_MISSING /\ key \notin SiblingKeys(locale)

\* C12: every issue of the catalog, flat and plural checks has a non-empty
\* locale set and names at least one required locale that fails the issue's
\* check for the issue's key; with an empty required-locale set no issue is
\* emitted.
C12_IssuesNameFailingLocales ==
    pc = "done" =>
        /\ \A i \in DOMAIN issues :
              /\ IssueLocales(issues[i]) # {}
              /\ \E locale \in required_locales \cap IssueLocales(issues[i]) :
                    FailsCheck(IssueKey(issues[i]), locale, IssueType(issues[i]))
        /\ required_locales = {} => issues = <<>>

\* C12 witness: two locales are required, a changed key passes the check for
\* one and fails it for the other, and its issue names the failing one only.
C12_Witness ==
    /\ Returned
    /\ required_locales = {"de", "fr"}
    /\ \E i \in DOMAIN issues :
          /\ IssueLocales(issues[i]) = {"fr"}
          /\ ~FailsCheck(IssueKey(issues[i]), "de", IssueType(issues[i]))
    /\ \E k \in changed_keys : ~IssueAbout(k)

\* C12, the other case: changed keys that fail for every locale one might
\* require, no locale required, no issue.
C12_WitnessNoRequiredLocale ==
    /\ Returned
    /\ required_locales = {}
    /\ fmt # "xcstrings"
    /\ \E k \in changed_keys : \A locale \in Locales : k \notin SiblingKeys(locale)
    /\ issues = <<>>

(***************************************************************************)
(* C13.  Flat and plural formats: for a changed key, a required locale is  *)
(* in the key's missing issue if and only if the locale's sibling file     *)
(* lacks the key, whatever value the file stores for it.                   *)
(***************************************************************************)
LocaleBasedChecked == fmt \in {"strings", "stringsdict"} /\ pc = "done"

MissingExactlyWhereKeyAbsent ==
    \A k \in changed_keys, locale \in required_locales :
        IssueNames(k, locale, ISSUE_TYPE_MISSING) <=> k \notin SiblingKeys(locale)

\* C13: for every changed key and required locale of a flat or plural check, a
\* missing issue names the locale iff the key is absent from the locale's
\* sibling file; the value stored there does not matter.
C13_MissingIffKeyAbsent ==
    LocaleBasedChecked => MissingExactlyWhereKeyAbsent

\* C13, of the checks that return only.
C13_MissingIffKeyAbsentWhenReturned ==
    (LocaleBasedChecked /\ Returned) => MissingExactlyWhereKeyAbsent

\* C13, a case that returns: the sibling file holds the changed key with an
\* empty value, and the locale is not reported.
C13_WitnessEmptyValue ==
    /\ fmt = "strings"
    /\ Returned
    /\ "de" \in required_locales
    /\ \E k \in changed_keys :
          /\ locale_files["de"].c = "text"
          /\ \E i \in DOMAIN locale_files["de"].pieces :
                locale_files["de"].pieces[i] = Pair(k, "")
          /\ ~IssueNames(k, "de", ISSUE_TYPE_MISSING)

(***************************************************************************)
(* C14.  Flat and plural formats: a required locale without a sibling file *)
(* is in the missing issue of every changed key, and with no sibling file  *)
(* at all each changed key has one missing issue for the full required     *)
(* set (Scenario A).                                                       *)
(***************************************************************************)
NoSiblingFile(locale) == locale_files[locale].c = "nofile"

\* The issues about the key are one missing issue for the given locales.
OneMissingIssue(k, locales) ==
    /\ \E i \in DOMAIN issues : IssueKey(issues[i]) = k
    /\ \A i, j \in DOMAIN issues :
          (IssueKey(issues[i]) = k /\ IssueKey(issues[j]) = k) => i = j
    /\ \A i \in DOMAIN issues :
          IssueKey(issues[i]) = k =>
              /\ IssueLocales(issues[i]) = locales
              /\ IssueType(issues[i]) = ISSUE_TYPE_MISSING

MissingFileIsMissingKey ==
    /\ \A locale \in required_locales :
          NoSiblingFile(locale) =>
              \A k \in changed_keys : IssueNames(k, locale, ISSUE_TYPE_MISSING)
    /\ (required_locales # {} /\ \A locale \in required_locales : NoSiblingFile(locale)) =>
          /\ \A k \in changed_keys : OneMissingIssue(k, required_locales)
          /\ \A k \in CurrentKeys \ changed_keys : ~IssueAbout(k)

\* C14: a required locale whose sibling file does not exist is named by the
\* missing issue of every changed key; when no required locale has a sibling
\* file every changed key has exactly one issue, missing for the full required
\* set, and an unchanged key has none.
C14_MissingFileIsMissingKey ==
    LocaleBasedChecked => MissingFileIsMissingKey

\* C14, of the checks that return only.
C14_MissingFileWhenReturned ==
    (LocaleBasedChecked /\ Returned) => MissingFileIsMissingKey

\* C14, Scenario A: base holds save, current adds cancel, de and fr are
\* required and have no file; the one issue is (file, cancel, {de, fr}, missing).
C14_ScenarioA ==
    (/\ fmt = "strings" /\ pc = "done"
     /\ base_content = TextContent(<<Pair("save", "Save")>>)
     /\ current_content = TextContent(<<Pair("save", "Save"), Pair("cancel", "Cancel")>>)
     /\ required_locales = {"de", "fr"}
     /\ \A locale \in required_locales : NoSiblingFile(locale))
        => issues = << <<StringsPath, "cancel", {"de", "fr"}, ISSUE_TYPE_MISSING>> >>

C14_WitnessScenarioA ==
    /\ fmt = "strings" /\ pc = "done"
    /\ base_content = TextContent(<<Pair("save", "Save")>>)
    /\ current_content = TextContent(<<Pair("save", "Save"), Pair("cancel", "Cancel")>>)
    /\ required_locales = {"de", "fr"}
    /\ \A locale \in required_locales : NoSiblingFile(locale)

(***************************************************************************)
(* C15.  In every format a key with an identical value in base and current *)
(* is in no issue, whatever the sibling files hold and whatever its        *)
(* per-locale states are, even next to changed keys (Scenario C).          *)
(***************************************************************************)
UnchangedKeys == {k \in CommonKeys : CurrentEntries[k] = BaseEntries[k]}

\* C15: a key whose value is identical in the base and the current snapshot is
\* not in the changed-key set and no issue names it, in the catalog, flat and
\* plural formats.
C15_UnchangedKeyNeverReported ==
    pc = "done" => \A k \in UnchangedKeys : k \notin changed_keys /\ ~IssueAbout(k)

\* C15 witness, Scenario C: a plural key identical in both snapshots that a
\* required locale's sibling file lacks, next to a changed key that is reported;
\* no issue names the unchanged key.
C15_Witness ==
    /\ fmt = "stringsdict"
    /\ Returned
    /\ issues # <<>>
    /\ \E k \in UnchangedKeys :
          /\ \E locale \in required_locales : k \notin SiblingKeys(locale)
          /\ ~IssueAbout(k)

\* C15, the catalog case: an unchanged key without a valid translation for a
\* required locale, next to a changed key that is reported.
C15_WitnessCatalog ==
    /\ fmt = "xcstrings"
    /\ Returned
    /\ issues # <<>>
    /\ \E k \in UnchangedKeys :
          /\ Translatable(CurrentEntries[k])
          /\ \E locale \in required_locales : NoValidTranslation(CurrentEntries[k], locale)
          /\ ~IssueAbout(k)

(***************************************************************************)
(* The report: the issues in the order format_issues emits them, and the   *)
(* key and status lines of the output.                                     *)
(***************************************************************************)
Formatted == pc = "reported" /\ issues # <<>>

Orderings(n) == {p \in [1..n -> 1..n] : \A i, j \in 1..n : i # j => p[i] # p[j]}

SameFile(i, j) == IssueFile(issues[i]) = IssueFile(issues[j])

\* Issue i may stand before issue j: its path is smaller, or the paths are
\* equal and its key is not greater.
NotAfter(i, j) ==
    \/ StrLess(IssueFile(issues[i]), IssueFile(issues[j]))
    \/ SameFile(i, j) /\ ~StrLess(IssueKey(issues[j]), IssueKey(issues[i]))

\* Issue i stands before issue j: by path, then by key, then by input position.
Before(i, j) ==
    \/ StrLess(IssueFile(issues[i]), IssueFile(issues[j]))
    \/ SameFile(i, j) /\ StrLess(IssueKey(issues[i]), IssueKey(issues[j]))
    \/ SameFile(i, j) /\ IssueKey(issues[i]) = IssueKey(issues[j]) /\ i < j

EmissionOrder ==
    LET rank == [i \in DOMAIN issues |->
                    Cardinality({j \in DOMAIN issues : Before(j, i)}) + 1]
    IN  [r \in 1..Len(issues) |-> CHOOSE i \in DOMAIN issues : rank[i] = r]

EmittedIssue(j) == issues[EmissionOrder[j]]

KeyLines == SelectSeq(output, LAMBDA l : l.line = "Key:")
StatusLines == SelectSeq(output, LAMBDA l : l.line = "status")

\* The output that lists the issues in the order p: the title, and for each
\* issue its two lines, under a File line wherever the path changes.
LinesInOrder(p) ==
    LET upto[j \in 0..Len(issues)] ==
            IF j = 0 THEN <<TitleLine>>
            ELSE upto[j - 1]
                 \o (IF j = 1 \/ ~SameFile(p[j], p[j - 1])
                     THEN <<FileLine(IssueFile(issues[p[j]]))>> ELSE <<>>)
                 \o issue_lines(issues[p[j]], required_locales)
    IN  upto[Len(issues)]

(***************************************************************************)
(* C17.  format_issues groups the issues by file, the files in             *)
(* lexicographic order of path and the issues of a file in lexicographic   *)
(* order of key; every input issue is in the output exactly once.          *)
(***************************************************************************)
\* C17: the output lists every input issue exactly once, in an order in which
\* the paths never decrease and, within a path, the keys never decrease, with
\* one File line per path.
C17_GroupedByFileSortedByKey ==
    Formatted =>
        \E p \in Orderings(Len(issues)) :
            /\ \A a, b \in 1..Len(issues) : a < b => NotAfter(p[a], p[b])
            /\ output = LinesInOrder(p)

\* C17 witness: three issues of two files given out of order, the later path
\* first and the greater key first.
C17_Witness ==
    /\ Formatted
    /\ Len(issues) = 3
    /\ StrLess(IssueFile(issues[2]), IssueFile(issues[1]))
    /\ SameFile(2, 3)
    /\ StrLess(IssueKey(issues[3]), IssueKey(issues[2]))
    /\ EmissionOrder = <<3, 2, 1>>

(***************************************************************************)
(* C18.  An issue is shown as "All N languages", N the size of the         *)
(* required-locale set, if and only if its locale set is the required set; *)
(* otherwise its locales are listed in sorted order.                       *)
(***************************************************************************)
IsSortedListOf(q, S) ==
    /\ Len(q) = Cardinality(S)
    /\ {q[i] : i \in DOMAIN q} = S
    /\ \A i, j \in DOMAIN q : i < j => StrLess(q[i], q[j])

\* C18: the status line of an issue shows "All N languages", N the size of the
\* required-locale set, iff the issue's locale set equals the required set, and
\* otherwise the issue's locales in sorted order; the issue list is the one
\* that was passed in.
C18_AllLanguagesIffFullSet ==
    Formatted =>
        /\ Len(StatusLines) = Len(issues)
        /\ \A j \in 1..Len(issues) :
              LET shown == StatusLines[j].locale_display
                  locales == IssueLocales(EmittedIssue(j))
              IN  /\ shown.display = "All N languages" <=> locales = required_locales
                  /\ shown.display = "All N languages" =>
                        shown.locale_count = Cardinality(required_locales)
                  /\ shown.display # "All N languages" =>
                        IsSortedListOf(shown.locales_sorted, locales)
        /\ \A i \in DOMAIN issues : issues[i] \in FormatIssueSet

\* C18 witness: one issue for the full required set, shown by the label, next
\* to one for a different set of the same size and one for two locales, listed.
C18_Witness ==
    /\ Formatted
    /\ required_locales = {"de"}
    /\ \E j \in DOMAIN StatusLines :
          StatusLines[j].locale_display.display = "All N languages"
    /\ \E j \in DOMAIN StatusLines :
          /\ StatusLines[j].locale_display.display = "codes"
          /\ StatusLines[j].locale_display.locales_sorted = <<"fr">>
    /\ \E j \in DOMAIN StatusLines :
          /\ StatusLines[j].locale_display.display = "codes"
          /\ StatusLines[j].locale_display.locales_sorted = <<"de", "fr">>

(***************************************************************************)
(* C19.  A key of at most 50 characters is displayed unchanged, a longer   *)
(* one as its first 47 characters and "..."; grouping and sorting use the  *)
(* full key.                                                               *)
(***************************************************************************)
Ellipsis == <<46, 46, 46>>

\* C19: the key line of an issue shows the key itself when it has at most 50
\* characters and otherwise its first 47 characters followed by "...", 50
\* characters in all; the issues are emitted in the order of their full keys,
\* and the keys of the issue list are the full keys.
C19_LongKeyTruncatedForDisplay ==
    Formatted =>
        /\ Len(KeyLines) = Len(issues)
        /\ Len(StatusLines) = Len(issues)
        /\ \A j \in 1..Len(issues) :
              LET text == CodePoints[IssueKey(EmittedIssue(j))]
                  shown == KeyLines[j].display_key
              IN  /\ Len(text) <= 50 => shown = text
                  /\ Len(text) > 50 =>
                        /\ Len(shown) = 50
                        /\ SubSeq(shown, 1, 47) = SubSeq(text, 1, 47)
                        /\ SubSeq(shown, 48, 50) = Ellipsis
                  /\ StatusLines[j].status_label = status_label(IssueType(EmittedIssue(j)))
                  /\ StatusLines[j].locale_display
                        = locale_display(IssueLocales(EmittedIssue(j)), required_locales)
        /\ \A i \in DOMAIN issues : issues[i] \in FormatIssueSet

\* C19 witness: a key of 50 characters shown in full, and two keys of 51
\* characters that share their first 47, given greater key first and shown by
\* the same text in the order of the full keys.
C19_Witness ==
    /\ Formatted
    /\ Len(issues) = 3
    /\ IssueKey(issues[1]) = Key51One
    /\ IssueKey(issues[2]) = Key51Off
    /\ IssueFile(issues[2]) = IssueFile(issues[1])
    /\ IssueKey(issues[3]) = Key50
    /\ EmissionOrder = <<2, 1, 3>>
    /\ KeyLines[1].display_key = KeyLines[2].display_key
    /\ KeyLines[3].display_key = CodePoints[Key50]

(***************************************************************************)
(* C20.  The required locales of the two platforms.                        *)
(***************************************************************************)
PlatformOfRun == pc # "main" /\ platform \in {"iOS", "macOS"}

\* C20 as the specification states it: the required locales of iOS and
\* those of macOS are disjoint.
C20_PlatformLocalesDisjoint ==
    PlatformOfRun =>
        /\ required_locales = get_required_locales(platform)
        /\ get_required_locales("iOS") \cap get_required_locales("macOS") = {}

\* C20: each platform has its fixed set of required locales, and the eight
\* locales of macOS are all among the twenty-four of iOS: a run on either
\* platform requires every locale of macOS.
C20_MacosLocalesAmongIosLocales ==
    PlatformOfRun =>
        /\ required_locales = get_required_locales(platform)
        /\ Cardinality(get_required_locales("macOS")) = 8
        /\ Cardinality(get_required_locales("iOS")) = 24
        /\ get_required_locales("macOS") \subseteq get_required_locales("iOS")
        /\ get_required_locales("macOS") \subseteq required_locales

\* A run on macOS reports a key missing in de, a locale iOS requires too.
C20_Witness ==
    /\ pc = "reported"
    /\ platform = "macOS"
    /\ "de" \in get_required_locales("iOS")
    /\ \E i \in DOMAIN issues : "de" \in IssueLocales(issues[i])

\* A run on iOS reports a key missing in a locale of macOS.
C20_WitnessIos ==
    /\ pc = "reported"
    /\ platform = "iOS"
    /\ \E i \in DOMAIN issues : IssueLocales(issues[i]) \cap MACOS_LOCALES # {}

(***************************************************************************)
(* C16.  The report does not depend on iteration orders.                   *)
(***************************************************************************)
extension_of(f) == IF f = "strings_files" THEN ".strings" ELSE ".stringsdict"

LocationOrders ==
    IterationOrders(find_locations_func(extension_of(fmt), get_search_paths(platform)))

\* What main prints for an issue list.
report_of(list) ==
    IF list = <<>> THEN <<AllTranslatedLine>> ELSE format_issues(list, required_locales)

RunReported == pc = "reported" /\ changed_files # {}

\* C16: the report of a run is the report of the same inputs under every
\* order in which the locations are discovered and every order in which the
\* changed keys of each file are visited.  (The locales of an issue enter
\* the report only through their count or their sorted list.)
C16_ReportIndependentOfIterationOrders ==
    RunReported =>
        \A location_order \in LocationOrders :
            \A key_order_of \in KeyOrderChoices(extension_of(fmt)) :
                report_of(check_locale_based_files(extension_of(fmt), required_locales,
                                                   location_order, key_order_of))
                    = output

\* Two files are reported, one of them with two keys, and another order of
\* the locations or of the keys gives the detector another issue list.
C16_Witness ==
    /\ RunReported
    /\ \E i, j \in DOMAIN issues : IssueFile(issues[i]) # IssueFile(issues[j])
    /\ \E i, j \in DOMAIN issues :
          /\ IssueFile(issues[i]) = IssueFile(issues[j])
          /\ IssueKey(issues[i]) # IssueKey(issues[j])
    /\ \E location_order \in LocationOrders :
          \E key_order_of \in KeyOrderChoices(extension_of(fmt)) :
              check_locale_based_files(extension_of(fmt), required_locales,
                                       location_order, key_order_of) # issues

\* The same for a string catalog: the report does not depend on the order
\* in which the changed keys of the catalog are visited.
C16_CatalogReportIndependentOfKeyOrder ==
    (Returned /\ fmt = "xcstrings" /\ current_content.c # "nofile") =>
        LET current_data == parse_xcstrings(current_content)
            base_data == parse_xcstrings(base_content)
        IN  \A key_order \in IterationOrders(changed_keys) :
                report_of(check_xcstrings_strings_missing_translations(
                              XcstringsPath, current_data, required_locales,
                              changed_keys, key_order)
                          \o check_xcstrings_needs_review(
                              XcstringsPath, current_data, base_data,
                              required_locales, changed_keys, key_order))
                    = report_of(issues)

(***************************************************************************)
(* C21.  The locators.                                                     *)
(***************************************************************************)
Located == pc = "located"

LocatorExtension ==
    IF fmt = "find_strings_file_locations" THEN ".strings" ELSE ".stringsdict"

\* The file lies in a directory at or below a search path.
UnderSearchRoot(file) ==
    /\ Len(file) >= 2
    /\ \E i \in DOMAIN get_search_paths(platform) : file[1] = get_search_paths(platform)[i]

\* The file has the extension and its immediate parent directory is a
\* locale directory.
LocaleResource(file) ==
    /\ endswith(file[Len(file)], LocatorExtension)
    /\ endswith(file[Len(file) - 1], ".lproj")

\* The pair of a file: the parent of its directory, and its name.
PairOf(file) == <<SubSeq(file, 1, Len(file) - 2), file[Len(file)]>>

\* C21: a locator returns the pair (parent of the locale directory, file
\* name) of every file below a search path that has the extension of the
\* format and whose immediate parent directory name ends with .lproj, and
\* every pair it returns is the pair of such a file;
\* a search path that does not exist contributes nothing, and a pair found
\* through several locale directories is one element of the result.
C21_LocatorFindsLocaleResources ==
    Located =>
        /\ \A file \in tree :
              (UnderSearchRoot(file) /\ LocaleResource(file)) =>
                  PairOf(file) \in locations
        /\ \A pair \in locations :
              \E file \in tree :
                  UnderSearchRoot(file) /\ LocaleResource(file) /\ pair = PairOf(file)
        /\ \A i \in DOMAIN get_search_paths(platform) :
              (~\E file \in tree : file[1] = get_search_paths(platform)[i]) =>
                  ~\E pair \in locations :
                      Len(pair[1]) >= 1 /\ pair[1][1] = get_search_paths(platform)[i]

\* The same resource in en.lproj and de.lproj gives one pair, and the files
\* outside a locale directory, with another extension or outside the search
\* paths give none.
C21_Witness ==
    /\ Located
    /\ fmt = "find_strings_file_locations"
    /\ platform = "iOS"
    /\ tree = LocatorFiles
    /\ locations = {<<<<"iOS", "Core">>, "Localizable.strings">>,
                    <<<<"SharedPackages", "UI">>, "Localizable.strings">>}

\* On macOS the search path macOS does not exist and contributes nothing.
C21_WitnessNoSearchRoot ==
    /\ Located
    /\ platform = "macOS"
    /\ fmt = "find_stringsdict_file_locations"
    /\ tree = LocatorFiles
    /\ locations = {<<<<"SharedPackages", "UI">>, "Localizable.stringsdict">>}

(***************************************************************************)
(* C22.  A catalog key without an English localization.                    *)
(***************************************************************************)
\* The entry is a mapping whose localizations have no en entry.
NoEnglishEntry(entry) ==
    /\ HasDictAt(entry, "localizations")
    /\ "en" \notin KeysOf(entry.d["localizations"])

\* C22: a key of both snapshots whose entry has no en localization in one
\* of them is compared with the source value "": it is in the changed-key
\* set exactly when the English source value of the other snapshot's entry
\* is not the empty string.
C22_NoEnglishEntryComparesAsEmpty ==
    CatalogKeysCompared =>
        \A k \in CommonKeys :
            /\ NoEnglishEntry(BaseEntries[k]) =>
                  (k \in changed_keys <=> EnglishValueAt(CurrentEntries[k]) # Str(""))
            /\ NoEnglishEntry(CurrentEntries[k]) =>
                  (k \in changed_keys <=> EnglishValueAt(BaseEntries[k]) # Str(""))

\* The base entry has no en localization and the current one has the value
\* Welcome: the key is changed.
C22_Witness ==
    /\ CatalogKeysCompared
    /\ "welcome" \in CommonKeys
    /\ NoEnglishEntry(BaseEntries["welcome"])
    /\ EnglishValueAt(CurrentEntries["welcome"]) = Str("Welcome")
    /\ "welcome" \in changed_keys

\* The current entry has no en localization and the base one has the value
\* "": the key is not changed, though the entries differ.
C22_WitnessEmptyValue ==
    /\ CatalogKeysCompared
    /\ "welcome" \in CommonKeys
    /\ NoEnglishEntry(CurrentEntries["welcome"])
    /\ HasDictAt(BaseEntries["welcome"], "localizations")
    /\ HasDictAt(BaseEntries["welcome"].d["localizations"], "en")
    /\ EnglishValueAt(BaseEntries["welcome"]) = Str("")
    /\ "welcome" \notin changed_keys

(***************************************************************************)
(* C23.  The translation integrity check.                                  *)
(***************************************************************************)
Exited == pc = "exited"

\* The keys and values the check reads from a version of a file.
IntegrityEntries(path, content) ==
    IF endswith(path, ".strings") THEN integrity_parse_strings_file(content)
    ELSE integrity_parse_stringsdict_file(content)

HeadEntries(path) == IntegrityEntries(path, head_files[path])
WorkingEntries(path) == IntegrityEntries(path, working_files[path])

TrimmedLength(value) == Len(strip(CodePoints[value]))

\* A key of the HEAD version is not in the working version.
KeyDeleted(path) == \E key \in DOMAIN HeadEntries(path) : key \notin DOMAIN WorkingEntries(path)

\* The working value of a surviving key is empty once trimmed, or its
\* trimmed length is below half the trimmed old length, rounded down.
ValueEmptiedOrHalved(path) ==
    \E key \in DOMAIN HeadEntries(path) \cap DOMAIN WorkingEntries(path) :
        \/ TrimmedLength(WorkingEntries(path)[key]) = 0
        \/ TrimmedLength(WorkingEntries(path)[key])
               < TrimmedLength(HeadEntries(path)[key]) \div 2

TranslationFile(path) == endswith(path, ".strings") \/ endswith(path, ".stringsdict")

C23_WitnessDeletedForm ==
    /\ Exited
    /\ changed_files = {StringsdictPath}
    /\ \E key \in DOMAIN HeadEntries(StringsdictPath) :
          key \notin DOMAIN WorkingEntries(StringsdictPath)
    /\ DOMAIN WorkingEntries(StringsdictPath) # {}
    /\ exit_code = <<1>>

\* The form "other" is empty at HEAD and in the working copy, and the form
\* "one" was added: the empty working value fails the check.
C23_WitnessUnchangedEmptyValue ==
    /\ Exited
    /\ changed_files = {StringsdictPath}
    /\ DOMAIN HeadEntries(StringsdictPath) \subseteq DOMAIN WorkingEntries(StringsdictPath)
    /\ \A key \in DOMAIN HeadEntries(StringsdictPath) :
          HeadEntries(StringsdictPath)[key] = WorkingEntries(StringsdictPath)[key]
    /\ \E key \in DOMAIN HeadEntries(StringsdictPath) :
          HeadEntries(StringsdictPath)[key] = ""
    /\ exit_code = <<1>>

\* "Save File" became "Sav ": 3 characters once trimmed, below 9 div 2.
C23_WitnessShortened ==
    /\ Exited
    /\ changed_files = {StringsPath}
    /\ HeadEntries(StringsPath) = (CodePoints["save"] :> "Save File")
    /\ WorkingEntries(StringsPath) = (CodePoints["save"] :> "Sav ")
    /\ exit_code = <<1>>

(***************************************************************************)
(* C24.  The needs-review pass reads the changed keys only.                *)
(***************************************************************************)
\* The key is in both snapshots with the same English source value.
SourceUnchanged(k) ==
    /\ k \in CommonKeys
    /\ EnglishValueAt(BaseEntries[k]) = EnglishValueAt(CurrentEntries[k])

NeedsReviewIssueAbout(k) ==
    \E i \in DOMAIN issues :
        IssueKey(issues[i]) = k /\ IssueType(issues[i]) = ISSUE_TYPE_NEEDS_REVIEW

\* C24: a catalog key whose English source value is the same in the base
\* and in the current snapshot has no needs-review issue, whatever the
\* states of its localizations became.
C24_UnchangedSourceNeverNeedsReview ==
    (fmt = "xcstrings" /\ pc = "done") =>
        \A k \in CommonKeys : SourceUnchanged(k) => ~NeedsReviewIssueAbout(k)

\* de is required and went from translated to needs_review under an
\* unchanged source value: the check returns without an issue for the key.
C24_Witness ==
    /\ fmt = "xcstrings"
    /\ Returned
    /\ "de" \in required_locales
    /\ "welcome" \in CommonKeys
    /\ SourceUnchanged("welcome")
    /\ EnglishValueAt(CurrentEntries["welcome"]) # Str("")
    /\ Translatable(CurrentEntries["welcome"])
    /\ StateAt(BaseEntries["welcome"], "de") = Str("translated")
    /\ StateAt(CurrentEntries["welcome"], "de") = Str("needs_review")
    /\ ~NeedsReviewIssueAbout("welcome")

(***************************************************************************)
(* C25.  Which flat and plural resources a run checks.                     *)
(***************************************************************************)
LocaleBasedRunChecked == fmt \in {"strings_files", "stringsdict_files"} /\ pc = "done"

\* The keys and values of a file of the tree.
RunEntries(content) ==
    IF content.c = "text" THEN parse_strings_file(content)
    ELSE IF content.c = "plist" /\ IsDict(content.v) THEN content.v.d
    ELSE NoFields

\* The English variant of the resource is in the changed-file list and exists.
EnglishVariantChanged(dir) ==
    /\ RunEnPath(fmt, dir) \in changed_files
    /\ lproj_files[<<dir, "en", RunFilename(fmt)>>].c # "nofile"

\* The keys of the English file that its own base content lacks or has
\* with another value.
ChangedAgainstOwnBase(dir) ==
    LET current == RunEntries(lproj_files[<<dir, "en", RunFilename(fmt)>>])
        base == RunEntries(base_files[RunEnPath(fmt, dir)])
    IN  {k \in DOMAIN current : k \notin DOMAIN base \/ current[k] # base[k]}

MissingInSomeSibling(dir, k) ==
    \E locale \in required_locales :
        k \notin DOMAIN RunEntries(lproj_files[<<dir, locale, RunFilename(fmt)>>])

IssueKeysOf(path) ==
    {IssueKey(issues[i]) : i \in {j \in DOMAIN issues : IssueFile(issues[j]) = path}}

\* C25: a resource whose English variant is not in the changed-file list,
\* or does not exist, has no issue, whatever changed in its sibling files;
\* a resource whose English variant is changed and exists is compared with
\* its own base content, the empty content when the base has none: when the
\* check returns, its issues name the keys new or changed against that
\* base that a required locale's sibling lacks.
C25_ChecksChangedEnglishVariants ==
    LocaleBasedRunChecked =>
        \A dir \in RunDirs :
            /\ ~EnglishVariantChanged(dir) => IssueKeysOf(RunEnPath(fmt, dir)) = {}
            /\ (EnglishVariantChanged(dir) /\ raised = "none") =>
                  IssueKeysOf(RunEnPath(fmt, dir))
                      = {k \in ChangedAgainstOwnBase(dir) : MissingInSomeSibling(dir, k)}

\* Only a sibling file of iOS/Core changed, though its English file has a
\* key its base lacks and de has no file; SharedPackages/UI is checked
\* against its own, empty base and has issues.
C25_Witness ==
    /\ LocaleBasedRunChecked
    /\ raised = "none"
    /\ changed_files = {RunSiblingPath(fmt), RunEnPath(fmt, "SharedPackages/UI")}
    /\ lproj_files[<<"iOS/Core", "en", RunFilename(fmt)>>].c # "nofile"
    /\ lproj_files[<<"iOS/Core", "de", RunFilename(fmt)>>].c = "nofile"
    /\ ChangedAgainstOwnBase("iOS/Core") # {}
    /\ IssueKeysOf(RunEnPath(fmt, "iOS/Core")) = {}
    /\ base_files[RunEnPath(fmt, "SharedPackages/UI")]
          # base_files[RunEnPath(fmt, "iOS/Core")]
    /\ Cardinality(IssueKeysOf(RunEnPath(fmt, "SharedPackages/UI"))) = 2

(***************************************************************************)
(* C26.  Missing and needs-review are two checks.                          *)
(***************************************************************************)
\* C26: no required locale is named both by a missing issue and by a
\* needs-review issue of the same catalog key; a locale whose current state
\* is needs_review is never reported missing.
C26_MissingAndNeedsReviewDisjoint ==
    (fmt = "xcstrings" /\ pc = "done") =>
        \A k \in CurrentKeys \cup BaseKeys, locale \in Locales :
            /\ ~(/\ IssueNames(k, locale, ISSUE_TYPE_MISSING)
                 /\ IssueNames(k, locale, ISSUE_TYPE_NEEDS_REVIEW))
            /\ (k \in CurrentKeys
                   /\ StateAt(CurrentEntries[k], locale) = Str("needs_review"))
                  => ~IssueNames(k, locale, ISSUE_TYPE_MISSING)

\* The key welcome has a missing issue for de and a needs-review issue for fr.
C26_Witness ==
    /\ fmt = "xcstrings"
    /\ Returned
    /\ required_locales = {"de", "fr"}
    /\ IssueNames("welcome", "de", ISSUE_TYPE_MISSING)
    /\ ~IssueNames("welcome", "de", ISSUE_TYPE_NEEDS_REVIEW)
    /\ IssueNames("welcome", "fr", ISSUE_TYPE_NEEDS_REVIEW)
    /\ ~IssueNames("welcome", "fr", ISSUE_TYPE_MISSING)

(***************************************************************************)
(* C27.  Issues stay within the required locales and the changed keys.     *)
(***************************************************************************)
Outcome(exception, list) == [raised |-> exception, issues |-> list]

\* What check_xcstrings_files makes of one catalog, its changed keys visited
\* in the given order.
CatalogOutcome(base, current, locales, key_order) ==
    IF current.c = "nofile" THEN Outcome(FALSE, <<>>)
    ELSE LET current_data == parse_xcstrings(current)
             base_data == parse_xcstrings(base)
         IN  IF get_changed_string_keys_raises(base_data, current_data)
             THEN Outcome(TRUE, <<>>)
             ELSE LET keys == get_changed_string_keys(base_data, current_data) IN
                  IF keys = {} THEN Outcome(FALSE, <<>>)
                  ELSE IF \/ check_missing_raises(current_data, locales, keys)
                          \/ check_needs_review_raises(current_data, base_data,
                                                       locales, keys)
                  THEN Outcome(TRUE, <<>>)
                  ELSE Outcome(FALSE,
                               check_xcstrings_strings_missing_translations(
                                   XcstringsPath, current_data, locales, keys, key_order)
                               \o check_xcstrings_needs_review(
                                   XcstringsPath, current_data, base_data, locales,
                                   keys, key_order))

\* What check_strings_translations makes of one English file.
StringsOutcome(base, current, files, locales, key_order) ==
    IF current.c = "nofile" THEN Outcome(FALSE, <<>>)
    ELSE LET keys == strings_changed_keys(parse_strings_file(current),
                                          parse_strings_file(base))
             locale_keys == [locale \in locales |-> strings_locale_keys(files, locale)]
         IN  IF keys = {} THEN Outcome(FALSE, <<>>)
             ELSE Outcome(FALSE, locale_missing_issues(StringsPath, locale_keys,
                                                       locales, key_order))

\* What check_stringsdict_translations makes of one English file.
StringsdictOutcome(base, current, files, locales, key_order) ==
    IF current.c = "nofile" THEN Outcome(FALSE, <<>>)
    ELSE IF plistlib_loads_raises_uncaught(current) \/ plistlib_loads_raises_uncaught(base)
    THEN Outcome(TRUE, <<>>)
    ELSE LET keys == stringsdict_changed_keys(parse_stringsdict_file_full(current),
                                              parse_stringsdict_file_full(base))
             locale_keys == [locale \in locales |-> stringsdict_locale_keys(files, locale)]
         IN  IF keys = {} THEN Outcome(FALSE, <<>>)
             ELSE IF \E locale \in locales : plistlib_loads_raises_uncaught(files[locale])
             THEN Outcome(TRUE, <<>>)
             ELSE Outcome(FALSE, locale_missing_issues(StringsdictPath, locale_keys,
                                                       locales, key_order))

CheckOutcome(base, current, files, key_order) ==
    IF fmt = "xcstrings" THEN CatalogOutcome(base, current, required_locales, key_order)
    ELSE IF fmt = "strings"
    THEN StringsOutcome(base, current, files, required_locales, key_order)
    ELSE StringsdictOutcome(base, current, files, required_locales, key_order)

\* The entry without its localization for the locale.
EntryWithoutLocale(entry, locale) ==
    IF HasDictAt(entry, "localizations")
    THEN Dict([f \in KeysOf(entry) |->
                 IF f = "localizations"
                 THEN Dict([l \in KeysOf(entry.d["localizations"]) \ {locale} |->
                              entry.d["localizations"].d[l]])
                 ELSE entry.d[f]])
    ELSE entry

\* The catalog without the localizations of its keys for the locale.
CatalogWithoutLocale(content, locale) ==
    IF content.c = "json" /\ HasDictAt(content.v, "strings")
    THEN JsonContent(Dict([f \in KeysOf(content.v) |->
                             IF f = "strings"
                             THEN Dict([k \in KeysOf(content.v.d["strings"]) |->
                                          EntryWithoutLocale(content.v.d["strings"].d[k],
                                                             locale)])
                             ELSE content.v.d[f]]))
    ELSE content

SingleFileChecked == fmt \in {"xcstrings", "strings", "stringsdict"} /\ pc = "done"

\* The orders in which the check may have visited the changed keys.
KeyOrders == IterationOrders(changed_keys)

\* Without the locale, the check does what it did: it raises or returns
\* alike, and returns the issue list of the state under some key order.
SameWithoutLocale(locale) ==
    LET base == IF fmt = "xcstrings" THEN CatalogWithoutLocale(base_content, locale)
                ELSE base_content
        current == IF fmt = "xcstrings" THEN CatalogWithoutLocale(current_content, locale)
                   ELSE current_content
        files == [locale_files EXCEPT ![locale] = NoFile]
    IN  /\ \A key_order \in KeyOrders :
              CheckOutcome(base, current, files, key_order)
                  = CheckOutcome(base_content, current_content, locale_files, key_order)
        /\ \E key_order \in KeyOrders :
              CheckOutcome(base, current, files, key_order)
                  = Outcome(raised # "none", issues)

\* C27: every issue names required locales only, and a key that is in the
\* changed-key set and among the keys of the current snapshot; and what a
\* catalog or a sibling file holds for a locale that is not required (and
\* is not the source language en) does not change the issue list.
C27_IssuesWithinRequiredAndChanged ==
    SingleFileChecked =>
        /\ \A i \in DOMAIN issues :
              /\ IssueLocales(issues[i]) \subseteq required_locales
              /\ IssueKey(issues[i]) \in changed_keys
              /\ IssueKey(issues[i]) \in CurrentKeys
        /\ \A locale \in Locales \ required_locales : SameWithoutLocale(locale)

\* Only de is required; fr is needs_review in the catalog and welcome,
\* a changed key, is reported missing for de alone.
C27_Witness ==
    /\ fmt = "xcstrings"
    /\ Returned
    /\ required_locales = {"de"}
    /\ "welcome" \in changed_keys
    /\ StateAt(CurrentEntries["welcome"], "fr") = Str("needs_review")
    /\ \E i \in DOMAIN issues :
          IssueKey(issues[i]) = "welcome" /\ IssueLocales(issues[i]) = {"de"}
    /\ \A i \in DOMAIN issues : "fr" \notin IssueLocales(issues[i])
    /\ CatalogWithoutLocale(current_content, "fr") # current_content

\* Only de is required and the fr sibling of the .stringsdict file is
\* truncated XML: it is never read.
C27_WitnessSiblingNotRead ==
    /\ fmt = "stringsdict"
    /\ Returned
    /\ required_locales = {"de"}
    /\ plistlib_loads_raises_uncaught(locale_files["fr"])
    /\ issues # <<>>

(***************************************************************************)
(* C28.  One issue for a file, a key and a kind.                           *)
(***************************************************************************)
\* C28: no two issues of the returned list have the same file, key and
\* kind, and no missing issue of a file stands after a needs-review issue
\* of that file.
C28_OneIssuePerFileKeyKind ==
    SingleFileChecked =>
        \A i, j \in DOMAIN issues :
            i < j =>
                /\ ~(/\ IssueFile(issues[i]) = IssueFile(issues[j])
                     /\ IssueKey(issues[i]) = IssueKey(issues[j])
                     /\ IssueType(issues[i]) = IssueType(issues[j]))
                /\ ~(/\ IssueFile(issues[i]) = IssueFile(issues[j])
                     /\ IssueType(issues[i]) = ISSUE_TYPE_NEEDS_REVIEW
                     /\ IssueType(issues[j]) = ISSUE_TYPE_MISSING)

\* A catalog key with a missing issue followed by its needs-review issue.
C28_Witness ==
    /\ fmt = "xcstrings"
    /\ Returned
    /\ Len(issues) = 2
    /\ IssueKey(issues[1]) = IssueKey(issues[2])
    /\ IssueType(issues[1]) = ISSUE_TYPE_MISSING
    /\ IssueType(issues[2]) = ISSUE_TYPE_NEEDS_REVIEW

\* A flat key that two required locales lack has one issue naming both.
C28_WitnessFlat ==
    /\ fmt = "strings"
    /\ Returned
    /\ \E i \in DOMAIN issues :
          /\ IssueLocales(issues[i]) = {"de", "fr"}
          /\ \A j \in DOMAIN issues :
                IssueKey(issues[j]) = IssueKey(issues[i]) => j = i

\* The same for a run of main over several flat or plural files.
C28_OneIssuePerFileKeyInRun ==
    LocaleBasedRunChecked =>
        \A i, j \in DOMAIN issues :
            i < j =>
                ~(/\ IssueFile(issues[i]) = IssueFile(issues[j])
                  /\ IssueKey(issues[i]) = IssueKey(issues[j]))

(***************************************************************************)
(* C29.  Entries that are not mappings.                                    *)
(***************************************************************************)
\* C29: a key of both snapshots whose entry is not a mapping in the base or
\* in the current snapshot is not in the changed-key set, even when the
\* English source values of its two entries differ.
C29_NonMappingEntryNeverChanged ==
    CatalogKeysCompared =>
        \A k \in CommonKeys :
            (~IsDict(BaseEntries[k]) \/ ~IsDict(CurrentEntries[k])) => k \notin changed_keys

\* The base entry of welcome is not a mapping and the current one has an
\* English value: the source values differ and the key is not changed.
C29_Witness ==
    /\ CatalogKeysCompared
    /\ raised = "none"
    /\ "welcome" \in CommonKeys
    /\ ~IsDict(BaseEntries["welcome"])
    /\ IsDict(CurrentEntries["welcome"])
    /\ EnglishValueAt(CurrentEntries["welcome"]) # Str("")
    /\ get_string_unit_value(BaseEntries["welcome"])
          # get_string_unit_value(CurrentEntries["welcome"])
    /\ "welcome" \notin changed_keys

(***************************************************************************)
(* C30.  The base branch is fixed by the first call.                       *)
(***************************************************************************)
\* The calls that asked for the base branch.
BaseQueries == {i \in DOMAIN git_calls : git_calls[i].base # NoneV}

FirstBaseQuery == CHOOSE i \in BaseQueries : \A j \in BaseQueries : i <= j

\* origin/<GITHUB_BASE_REF> if the variable is set and not empty, else
\* origin/main.
BaseBranchFor(base_ref) ==
    IF base_ref = Str("release") THEN Str("origin/release")
    ELSE Str("origin/main")

\* C30: the first call of get_base_branch fixes the base branch from the
\* GITHUB_BASE_REF of that moment, and every later call, from
\* get_changed_files or get_files_content_at_base, uses the same branch
\* whatever GITHUB_BASE_REF has become.
C30_BaseBranchFixedByFirstCall ==
    (fmt = "git_utilities" /\ BaseQueries # {}) =>
        /\ git_calls[FirstBaseQuery].base
              = BaseBranchFor(git_calls[FirstBaseQuery].environ)
        /\ \A i \in BaseQueries : git_calls[i].base = git_calls[FirstBaseQuery].base
        /\ base_branch_cache = git_calls[FirstBaseQuery].base

\* The first call ran under GITHUB_BASE_REF = release; the variable was
\* then removed and both utilities still used origin/release.
C30_Witness ==
    /\ fmt = "git_utilities"
    /\ Len(git_calls) = 3
    /\ BaseQueries = {1, 2, 3}
    /\ git_calls[1].environ = Str("release")
    /\ git_calls[2].environ = NoneV
    /\ git_calls[3].environ = Str("main")
    /\ git_calls[1].by = "get_changed_files"
    /\ git_calls[2].by = "get_files_content_at_base"
    /\ git_calls[3].base = Str("origin/release")

====
